---- MODULE Spec2Model ----
(***************************************************************************)
(* A state-machine model of the sharded PoH/DPoS prototype.                *)
(*                                                                         *)
(* Eighteen specifications share the module's variables; each drives one   *)
(* subsystem and leaves the others at their constructed values:            *)
(*   SpecMessaging    CrossShardManager: send and process_messages         *)
(*   SpecReadiness    the same, for every constructed slot_duration        *)
(*   SpecRouting      TransactionRouter over the cross-shard channel       *)
(*   SpecSync         StateSyncManager: update_state and sync_state        *)
(*   SpecSyncOrder    sync_state over updates received in any order        *)
(*   SpecRebalance    DynamicShardManager.adjust_shards under pool load    *)
(*   SpecMinSize      the same, for every constructed min_shard_size       *)
(*   SpecVisibility   adjust_shards followed by sync_state                 *)
(*   SpecAssignment   ShardManager: initialize_shards, rebalance_shards    *)
(*   SpecElection     DPOS: stake, register_validator, vote, the election  *)
(*   SpecSchedule     DPOS.get_next_block_validator as time passes         *)
(*   SpecProduction   POHWithDPOS.produce_block, ConsensusSystem's         *)
(*                    create_block and Blockchain.add_block                *)
(*   SpecHistory      ProofOfHistory: tick and verify, every difficulty    *)
(*   SpecTamper       verify over a history with one overwritten field     *)
(*   SpecSlots        TimeShardingManager.get_current_time_slot            *)
(*   SpecForkChoice   ForkChoice: add_block and is_valid_chain             *)
(*   SpecConfirmation BlockConfirmation: vote_block, is_block_confirmed    *)
(*   SpecPool         TransactionPool: add_transaction, get_batch and      *)
(*                    remove_transactions                                  *)
(*                                                                         *)
(* time.time() is the variable now: it never decreases, and two calls may  *)
(* read the same value.  Identifiers built with f-strings are the tuples   *)
(* of the formatted fields.  Python object identity is kept where the code *)
(* shares objects: CrossShardMessage objects live in the heap msgs and the *)
(* queues and pending_messages hold indices into it.                       *)
(***************************************************************************)
EXTENDS Integers, Sequences, FiniteSets, TLC

\* ---------------------------------------------------------------- bounds
MaxTime == 1          \* readings of the clock: 0..MaxTime
MaxMessages == 2      \* CrossShardMessage objects created by send
MaxUpdates == 2       \* update_state calls made directly by a caller
MaxPool == 2          \* transactions routed and not yet drained
NumValidators == 4    \* validator addresses 1..NumValidators
MaxShardId == 2       \* callers name the shard ids 0..MaxShardId
NumAddresses == 3     \* staking addresses 1..NumAddresses
MaxStake == 1         \* the most one address stakes in all
MaxVotes == 2         \* entries of the vote log
MaxActive == 2        \* DPOS(max_validators=n) for n in 1..MaxActive
MaxBlockTime == 5     \* readings of the clock while electing and producing
MaxHistory == 2       \* PoH nodes
MaxChain == 3         \* blocks of the ledger
NumVersions == 3      \* pending updates of one shard, versions 1..NumVersions
NumPoolTxIds == 3     \* tx_ids offered to the TransactionPool: 1..NumPoolTxIds
MaxGasPrice == 3      \* gas prices 0..MaxGasPrice, in tenths
MaxTxSize == 2        \* transaction sizes 0..MaxTxSize
MaxLimit == 3         \* get_batch(max_size=n) for n in 0..MaxLimit
MaxMinShardSize == 3  \* DynamicShardManager(min_shard_size=n) for n in 1..MaxMinShardSize
NumAssigned == 4      \* validators handed to ShardManager: 1..NumAssigned
NumVoters == 3        \* validators voting on blocks
MaxForkBlocks == 3    \* blocks handed to ForkChoice.add_block
MaxTicks == 3         \* ProofOfHistory.tick calls
MaxDifficulty == 2    \* ProofOfHistory(difficulty=n) for n in 0..MaxDifficulty
MaxSlotDuration == 2  \* TimeShardingManager(slot_duration=n) for n in 1..MaxSlotDuration
MaxSlotTime == 5      \* readings of the clock while slots are read

\* ------------------------------------------------- construction parameters
InitialShardCount == 2        \* TimeShardingManager(shard_count=...)
validators_per_shard == 3     \* TimeShardingManager(validators_per_shard=...)
global_start_time == 0        \* the clock reading at construction
AdjustmentThresholdNum == 1   \* adjustment_threshold = 1/400 = 0.0025
AdjustmentThresholdDen == 400
ValidatorCapacity == 100      \* transactions one validator can take
block_interval == 2           \* DPOS(block_interval=...)
required_confirmations == 2   \* BlockConfirmation(required_confirmations=...)
DefaultScore == 10            \* ShardAssignment.performance_score = 1.0, in tenths
GenesisValidator == 0         \* the genesis block's validator, "genesis"
max_size == 2                 \* TransactionPool(max_size=...)
max_batch_size == 2           \* TransactionPool(max_batch_size=...)
min_gas_price == 1            \* TransactionPool(min_gas_price=0.1), in tenths

VARIABLES
    now,                  \* time.time()
    lastOp,               \* the last call and what it returned: [op, result]
    \* TimeShardingManager
    slot_duration,        \* TimeShardingManager(slot_duration=...), never reassigned
    min_shard_size,       \* DynamicShardManager(min_shard_size=...), never reassigned
    difficulty,           \* ProofOfHistory(difficulty=...), never reassigned
    tampered,             \* the node and field of history changed from outside
                          \* the class, if any (history)
    shards,               \* shard_id -> validators (a dict: the domain grows)
    shard_count,
    assigned,             \* the validators initialize_shards placed (history)
    \* CrossShardManager
    msgs,                 \* heap of CrossShardMessage objects
    message_queue,        \* to_shard -> sequence of indices into msgs
    pending_messages,     \* message_id -> index into msgs
    confirmed_messages,   \* set of message ids
    cross_shard_messages, \* shard_id -> sequence of CrossShardMessage
    \* TransactionRouter
    tx_pools,             \* shard_id -> sequence of Transaction
    \* StateSyncManager
    state_versions,       \* shard_id -> version
    pending_updates,      \* insertion-ordered dict: sequence of StateUpdate
    completed_updates,    \* set of update ids
    state_cache,          \* shard_id -> (key -> value)
    updates_made,         \* update_state and adjust_shards calls made (bound only)
    \* DPOS
    max_validators,
    stakes,               \* address -> staked amount
    validators,           \* insertion-ordered dict: sequence of Validator
    votes,                \* the vote log: sequence of Vote
    active_validators,    \* set of addresses
    schedule,             \* <<interval, validator>> answers of
                          \* get_next_block_validator since the active set
                          \* was last computed (history)
    \* ProofOfHistory
    history,              \* sequence of HistoryNode
    \* Blockchain
    chain,                \* sequence of Block
    \* TransactionPool
    pending_txs,          \* OrderedDict tx_id -> Transaction: sequence of PoolTransaction
    priority_queue,       \* heap of (gas_price, tx_id): the set of its entries
    total_size,           \* sum of the sizes of the pooled transactions
    \* ShardManager
    assignments,          \* validator -> ShardAssignment
    shard_validators,     \* shard_id -> set of validators
    validator_stakes,     \* validator -> stake, as handed to initialize_shards
    \* ForkChoice
    chains,               \* insertion-ordered dict: sequence of [id, blocks]
    head,
    \* BlockConfirmation
    block_votes           \* block hash -> set of validators

shardOnly == <<shards, shard_count, assigned, msgs, message_queue,
               pending_messages, confirmed_messages, cross_shard_messages,
               tx_pools, state_versions, pending_updates, completed_updates,
               state_cache, updates_made>>

consensusOnly == <<max_validators, stakes, validators, votes, active_validators,
                   schedule, history, chain>>

poolOnly == <<pending_txs, priority_queue, total_size>>

\* what the calls on one subsystem leave alone
managerOnly == <<assignments, shard_validators, validator_stakes>>

forkOnly == <<chains, head, block_votes>>

\* the constructor arguments, and what no method writes
fixed == <<slot_duration, min_shard_size, difficulty, tampered>>

\* what the calls on one subsystem leave alone
exceptShard == <<fixed, consensusOnly, poolOnly, managerOnly, forkOnly>>
exceptConsensus == <<fixed, shardOnly, poolOnly, managerOnly, forkOnly>>
exceptPool == <<fixed, shardOnly, consensusOnly, managerOnly, forkOnly>>
exceptManager == <<fixed, shardOnly, consensusOnly, poolOnly, forkOnly>>
exceptFork == <<fixed, shardOnly, consensusOnly, poolOnly, managerOnly>>

vars == <<now, lastOp, fixed, shardOnly, consensusOnly, poolOnly, managerOnly, forkOnly>>

\* ---------------------------------------------------------------- helpers
Validators == 1..NumValidators
ShardIds == 0..MaxShardId
\* shard_id: int of update_state and sync_state, which may be negative
AnyShardIds == -1..MaxShardId
Payloads == {"d1"}
EmptyDict == <<>>

Min(a, b) == IF a <= b THEN a ELSE b

Range(s) == {s[i] : i \in DOMAIN s}

\* dict.get(key, default)
Get(d, k, default) == IF k \in DOMAIN d THEN d[k] ELSE default

\* d[k] = v
Put(d, k, v) == (k :> v) @@ d

\* del d[k]
Del(d, k) == [x \in DOMAIN d \ {k} |-> d[x]]

\* list[start:end] with 0-based Python slice bounds, clipped to the list
Slice(s, start, end) == SubSeq(s, start + 1, Min(end, Len(s)))

Call(op, result) == [op |-> op, result |-> result]

\* str(bool)
PyBool(b) == IF b THEN "True" ELSE "False"

\* ------------------------------------------------------ TimeShardingManager

\* for shard_id in range(shard_count): shards[shard_id] = Shard(validators=
\*     set(all_validators[shard_id*vps : shard_id*vps + vps]))
InitialShards(all_validators) ==
    [s \in 0..(shard_count - 1) |->
        Range(Slice(all_validators, s * validators_per_shard,
                    s * validators_per_shard + validators_per_shard))]

\* Inputs: lists of distinct validators of every length up to NumValidators.
ValidatorLists == {SubSeq([i \in 1..NumValidators |-> i], 1, k) : k \in 0..NumValidators}

initialize_shards(all_validators) ==
    /\ shards = EmptyDict
    /\ shards' = InitialShards(all_validators) @@ shards
    /\ assigned' = UNION Range(InitialShards(all_validators))
    /\ lastOp' = Call("initialize_shards", "none")
    /\ UNCHANGED <<now, shard_count, msgs, message_queue, pending_messages,
                   confirmed_messages, cross_shard_messages, tx_pools,
                   state_versions, pending_updates, completed_updates,
                   state_cache, updates_made>>

\* get_current_time_slot raises ValueError (or ZeroDivisionError) instead of
\* returning a slot
SlotId(t) == (t - global_start_time) \div slot_duration

CurrentSlotRaises(sh, sc, t) ==
    \/ sh = EmptyDict
    \/ slot_duration = 0
    \/ sc = 0
    \/ (SlotId(t) % sc) \notin DOMAIN sh

TimeSlot(slot_id, start_time, end_time, validator_group) ==
    [slot_id |-> slot_id, start_time |-> start_time, end_time |-> end_time,
     validator_group |-> validator_group]

ActiveShard_of_time(slot_id) == now % shard_count

\* shard_id = slot_id % self.shard_count
ActiveShard(slot_id) == slot_id % shard_count

get_current_time_slot ==
    /\ lastOp' =
          IF shards = EmptyDict
          THEN [op |-> "get_current_time_slot", result |-> "ValueError"]
          ELSE IF slot_duration = 0 \/ shard_count = 0
          THEN [op |-> "get_current_time_slot", result |-> "ZeroDivisionError"]
          ELSE LET slot_id == SlotId(now)
                   start_time == global_start_time + slot_id * slot_duration
               IN  IF ActiveShard(slot_id) \notin DOMAIN shards
                   THEN [op |-> "get_current_time_slot", result |-> "ValueError"]
                   ELSE [op |-> "get_current_time_slot", result |-> "slot",
                         ret |-> TimeSlot(slot_id, start_time,
                                          start_time + slot_duration,
                                          shards[ActiveShard(slot_id)])]
    /\ UNCHANGED <<now, shardOnly>>

\* ------------------------------------------------------- CrossShardManager

MessageId(prefix, t, from_shard, to_shard) == <<prefix, t, from_shard, to_shard>>

CrossShardMessage(id, from_shard, to_shard, data, t) ==
    [message_id |-> id, from_shard |-> from_shard, to_shard |-> to_shard,
     data |-> data, timestamp |-> t, status |-> "pending"]

send_cross_shard_message(from_shard, to_shard, data) ==
    LET id == MessageId("msg", now, from_shard, to_shard)
        ref == Len(msgs) + 1
    IN  /\ Len(msgs) < MaxMessages
        /\ msgs' = Append(msgs, CrossShardMessage(id, from_shard, to_shard, data, now))
        /\ message_queue' = Put(message_queue, to_shard,
                                Append(Get(message_queue, to_shard, <<>>), ref))
        /\ pending_messages' = Put(pending_messages, id, ref)
        /\ lastOp' = Call("send_cross_shard_message", "id")
        /\ UNCHANGED <<now, shards, shard_count, assigned, confirmed_messages,
                       cross_shard_messages, tx_pools, state_versions,
                       pending_updates, completed_updates, state_cache, updates_made>>

\* _verify_shard_ready: any exception inside is swallowed and answered True
verify_shard_ready(shard_id) ==
    IF shard_id >= shard_count THEN FALSE
    ELSE IF shard_id \notin DOMAIN shards THEN FALSE
    ELSE IF CurrentSlotRaises(shards, shard_count, now) THEN TRUE
    ELSE shards[shard_id] # {}

\* The cross-shard bookkeeping one process_messages call works on
CsState(m, p, c) == [msgs |-> m, pending |-> p, confirmed |-> c]

\* confirm_message(message_id)
confirm_message_on(st, id) ==
    IF id \in DOMAIN st.pending
    THEN CsState([st.msgs EXCEPT ![st.pending[id]].status = "confirmed"],
                 Del(st.pending, id),
                 st.confirmed \cup {id})
    ELSE st

\* the body of process_messages' first loop for the object ref
process_one(st, ref) ==
    confirm_message_on(
        CsState([st.msgs EXCEPT ![ref].status = "delivered"], st.pending, st.confirmed),
        st.msgs[ref].message_id)

RECURSIVE process_loop(_, _)
process_loop(st, refs) ==
    IF refs = <<>> THEN st
    ELSE process_loop(process_one(st, Head(refs)), Tail(refs))

\* the assignments to message.status that process_messages' first loop makes,
\* in order, as <<object, status>>: _process_message writes "delivered" to the
\* queued object, confirm_message writes "confirmed" to the object that
\* pending_messages holds under its id
RECURSIVE status_writes(_, _)
status_writes(st, refs) ==
    IF refs = <<>> THEN <<>>
    ELSE LET ref == Head(refs)
             id == st.msgs[ref].message_id
         IN  <<<<ref, "delivered">>>>
             \o (IF id \in DOMAIN st.pending
                 THEN <<<<st.pending[id], "confirmed">>>> ELSE <<>>)
             \o status_writes(process_one(st, ref), Tail(refs))

\* the messages of current_shard's queue that pass _process_message
processed_messages(current_shard) ==
    SelectSeq(message_queue[current_shard],
              LAMBDA r : verify_shard_ready(msgs[r].to_shard))

\* list.remove(x): drops the first element equal to x by value (dataclass __eq__)
RECURSIVE RemoveFirstEqual(_, _, _)
RemoveFirstEqual(m, refs, x) ==
    IF refs = <<>> THEN <<>>
    ELSE IF m[Head(refs)] = m[x] THEN Tail(refs)
    ELSE <<Head(refs)>> \o RemoveFirstEqual(m, Tail(refs), x)

RECURSIVE RemoveAll(_, _, _)
RemoveAll(m, refs, processed) ==
    IF processed = <<>> THEN refs
    ELSE RemoveAll(m, RemoveFirstEqual(m, refs, Head(processed)), Tail(processed))

process_messages(current_shard) ==
    /\ lastOp' = Call("process_messages", "none")
    /\ IF current_shard \notin DOMAIN message_queue
       THEN UNCHANGED <<msgs, message_queue, pending_messages, confirmed_messages>>
       ELSE LET messages == message_queue[current_shard]
                \* every queued message names current_shard as its to_shard
                processed == SelectSeq(messages,
                                LAMBDA r : verify_shard_ready(msgs[r].to_shard))
                st == process_loop(CsState(msgs, pending_messages, confirmed_messages),
                                   processed)
            IN  /\ msgs' = st.msgs
                /\ pending_messages' = st.pending
                /\ confirmed_messages' = st.confirmed
                /\ message_queue' = [message_queue EXCEPT ![current_shard] =
                                        RemoveAll(st.msgs, messages, processed)]
    /\ UNCHANGED <<now, shards, shard_count, assigned, cross_shard_messages, tx_pools,
                   state_versions, pending_updates, completed_updates, state_cache,
                   updates_made>>

\* handle_cross_shard_transaction(tx): KeyError when to_shard has no list
handle_cross_shard_transaction_raises(tx) == tx.to_shard \notin DOMAIN cross_shard_messages

handle_cross_shard_transaction(tx) ==
    [cross_shard_messages EXCEPT ![tx.to_shard] =
        Append(@, CrossShardMessage(MessageId("tx", now, tx.from_shard, tx.to_shard),
                                    tx.from_shard, tx.to_shard, tx.data, now))]

\* ------------------------------------------------------- TransactionRouter

\* tx_id is the sequence of its '_'-separated fields; the second one, when
\* there is one, is the timestamp _calculate_tx_latency parses.
TxIds == {<<"tx", 0>>, <<"tx1">>}

Transaction(tx_id, from_shard, to_shard, data) ==
    [tx_id |-> tx_id, from_shard |-> from_shard, to_shard |-> to_shard, data |-> data]

Transactions == {Transaction(i, f, t, "d1") : i \in TxIds, f \in ShardIds, t \in ShardIds}

LocalTransactions == {tx \in Transactions : tx.from_shard = tx.to_shard}

RECURSIVE SumLen(_, _)
SumLen(d, keys) ==
    IF keys = {} THEN 0
    ELSE LET k == CHOOSE x \in keys : TRUE IN Len(d[k]) + SumLen(d, keys \ {k})

Routed == SumLen(tx_pools, DOMAIN tx_pools) + SumLen(cross_shard_messages, DOMAIN cross_shard_messages)

route_transaction(tx) ==
    /\ Routed < MaxPool
    /\ IF tx.from_shard = tx.to_shard
       THEN IF tx.from_shard \in DOMAIN tx_pools
            THEN /\ tx_pools' = [tx_pools EXCEPT ![tx.from_shard] = Append(@, tx)]
                 /\ lastOp' = Call("route_transaction", "true")
                 /\ UNCHANGED cross_shard_messages
            ELSE /\ lastOp' = Call("route_transaction", "KeyError")
                 /\ UNCHANGED <<tx_pools, cross_shard_messages>>
       ELSE IF ~handle_cross_shard_transaction_raises(tx)
            THEN /\ cross_shard_messages' = handle_cross_shard_transaction(tx)
                 /\ lastOp' = Call("route_transaction", "true")
                 /\ UNCHANGED tx_pools
            ELSE /\ lastOp' = Call("route_transaction", "KeyError")
                 /\ UNCHANGED <<tx_pools, cross_shard_messages>>
    /\ UNCHANGED <<now, shards, shard_count, assigned, msgs, message_queue,
                   pending_messages, confirmed_messages, state_versions,
                   pending_updates, completed_updates, state_cache, updates_made>>

\* process_shard_transactions: txs = tx_pools.get(shard_id, []); tx_pools[shard_id] = []
process_shard_transactions(shard_id) ==
    /\ tx_pools' = Put(tx_pools, shard_id, <<>>)
    /\ lastOp' = Call("process_shard_transactions", "txs")
    /\ UNCHANGED <<now, shards, shard_count, assigned, msgs, message_queue,
                   pending_messages, confirmed_messages, cross_shard_messages,
                   state_versions, pending_updates, completed_updates, state_cache,
                   updates_made>>

\* -------------------------------------------------------- StateSyncManager

UpdateId(t, shard_id, version) == <<"update", t, shard_id, version>>

StateUpdate(id, shard_id, data, t, version) ==
    [update_id |-> id, shard_id |-> shard_id, data |-> data, timestamp |-> t,
     version |-> version, status |-> "pending"]

\* Payloads of a caller's update_state: dicts
StateData == {[balance |-> 1], [balance |-> 2]}

\* pending_updates[update.update_id] = update on an insertion-ordered dict:
\* an existing key keeps its place and takes the new value
RECURSIVE DictPut(_, _)
DictPut(pu, u) ==
    IF pu = <<>> THEN <<u>>
    ELSE IF Head(pu).update_id = u.update_id THEN <<u>> \o Tail(pu)
    ELSE <<Head(pu)>> \o DictPut(Tail(pu), u)

update_state_raises(sc, shard_id) == shard_id >= sc

\* the version update_state gives the next update of shard_id
NextVersion(sv, shard_id) == Get(sv, shard_id, 0) + 1

\* pending_updates after update_state(shard_id, data) at time t
update_state_on(pu, sv, shard_id, data, t) ==
    LET new_version == NextVersion(sv, shard_id)
    IN  DictPut(pu, StateUpdate(UpdateId(t, shard_id, new_version), shard_id, data,
                                t, new_version))

update_state(shard_id, data) ==
    /\ updates_made < MaxUpdates
    /\ updates_made' = updates_made + 1
    /\ IF update_state_raises(shard_count, shard_id)
       THEN /\ lastOp' = Call("update_state", "ValueError")
            /\ UNCHANGED pending_updates
       ELSE /\ pending_updates' = update_state_on(pending_updates, state_versions,
                                                  shard_id, data, now)
            /\ lastOp' = Call("update_state", "id")
    /\ UNCHANGED <<now, shards, shard_count, assigned, msgs, message_queue,
                   pending_messages, confirmed_messages, cross_shard_messages,
                   tx_pools, state_versions, completed_updates, state_cache>>

\* updates.sort(key=lambda x: x.version): a stable sort
RECURSIVE InsertByVersion(_, _)
InsertByVersion(sorted, u) ==
    IF sorted = <<>> THEN <<u>>
    ELSE IF u.version < Head(sorted).version THEN <<u>> \o sorted
    ELSE <<Head(sorted)>> \o InsertByVersion(Tail(sorted), u)

SortByVersion_unsorted(us) == us

RECURSIVE SortByVersion(_)
SortByVersion(us) ==
    IF us = <<>> THEN <<>>
    ELSE InsertByVersion(SortByVersion(SubSeq(us, 1, Len(us) - 1)), us[Len(us)])

\* dict.update(data)
DictUpdate(d, data) ==
    [k \in DOMAIN d \cup DOMAIN data |-> IF k \in DOMAIN data THEN data[k] ELSE d[k]]

DefaultState == [balance |-> 0]

\* _apply_state_update reads state_versions, which sync_state's loop leaves alone
apply_accepts(sv, u) == u.version > Get(sv, u.shard_id, 0)

SyState(pu, cu, cache) == [pending |-> pu, completed |-> cu, cache |-> cache]

RECURSIVE sync_loop(_, _, _)
sync_loop(st, sv, updates) ==
    IF updates = <<>> THEN st
    ELSE LET u == Head(updates)
         IN  IF apply_accepts(sv, u)
             THEN sync_loop(
                     SyState(SelectSeq(st.pending, LAMBDA p : p.update_id # u.update_id),
                             st.completed \cup {u.update_id},
                             Put(st.cache, u.shard_id,
                                 DictUpdate(Get(st.cache, u.shard_id, DefaultState), u.data))),
                     sv, Tail(updates))
             ELSE sync_loop(st, sv, Tail(updates))

\* the updates sync_state(shard_id) applies, in the order it applies them
applied_updates(pu, sv, shard_id) ==
    SelectSeq(SortByVersion(SelectSeq(pu, LAMBDA u : u.shard_id = shard_id)),
              LAMBDA u : apply_accepts(sv, u))

sync_state(shard_id) ==
    IF shard_id >= shard_count
    THEN /\ lastOp' = Call("sync_state", "false")
         /\ UNCHANGED <<now, shards, shard_count, assigned, msgs, message_queue,
                        pending_messages, confirmed_messages, cross_shard_messages,
                        tx_pools, state_versions, pending_updates, completed_updates,
                        state_cache, updates_made>>
    ELSE LET updates == SortByVersion(SelectSeq(pending_updates,
                                                LAMBDA u : u.shard_id = shard_id))
             st == sync_loop(SyState(pending_updates, completed_updates, state_cache),
                             state_versions, updates)
         IN  /\ pending_updates' = st.pending
             /\ completed_updates' = st.completed
             /\ state_cache' = st.cache
             /\ state_versions' = IF updates # <<>>
                                  THEN Put(state_versions, shard_id,
                                           updates[Len(updates)].version)
                                  ELSE state_versions
             /\ lastOp' = Call("sync_state", "true")
             /\ UNCHANGED <<now, shards, shard_count, assigned, msgs, message_queue,
                            pending_messages, confirmed_messages, cross_shard_messages,
                            tx_pools, updates_made>>

\* ----------------------------------------------------- DynamicShardManager

\* _calculate_tx_latency: float(tx.tx_id.split('_')[1]) raises on an id with
\* no second field
latency_raises(pool) == \E i \in DOMAIN pool : Len(pool[i].tx_id) < 2

\* the shards collect_metrics measures
MeasuredShards == {s \in 0..(shard_count - 1) : s \in DOMAIN shards}

collect_metrics_raises == \E s \in MeasuredShards : latency_raises(Get(tx_pools, s, <<>>))

\* load_factor >= adjustment_threshold, with
\* load_factor = len(tx_pool) / (len(validators) * 100), or 1.0 without validators
Overloaded(s) ==
    LET capacity == Cardinality(shards[s]) * ValidatorCapacity
        n == Len(Get(tx_pools, s, <<>>))
    IN  IF capacity > 0
        THEN n * AdjustmentThresholdDen >= AdjustmentThresholdNum * capacity
        ELSE AdjustmentThresholdDen >= AdjustmentThresholdNum

\* elif load_factor < adjustment_threshold / 2
Underloaded(s) ==
    LET capacity == Cardinality(shards[s]) * ValidatorCapacity
        n == Len(Get(tx_pools, s, <<>>))
    IN  /\ ~Overloaded(s)
        /\ IF capacity > 0
           THEN 2 * n * AdjustmentThresholdDen < AdjustmentThresholdNum * capacity
           ELSE 2 * AdjustmentThresholdDen < AdjustmentThresholdNum

\* the ids of S in increasing order: metrics is filled in range() order
RECURSIVE Ascending(_)
Ascending(S) ==
    IF S = {} THEN <<>>
    ELSE LET m == CHOOSE x \in S : \A y \in S : x <= y
         IN  <<m>> \o Ascending(S \ {m})

overloaded_shards == Ascending({s \in MeasuredShards : Overloaded(s)})
underloaded_shards == Ascending({s \in MeasuredShards : Underloaded(s)})

\* what one adjust_shards call works on
AdjState(sh, sc, pu) == [shards |-> sh, shard_count |-> sc, pending |-> pu]

sync_validators_source_only(st, a, b) ==
    IF update_state_raises(st.shard_count, a) THEN st
    ELSE AdjState(st.shards, st.shard_count,
                  update_state_on(st.pending, state_versions, a,
                                  [validators |-> st.shards[a]], now))

\* the two update_state calls that end a transfer or a split; the first one
\* that raises ends the call with the membership already changed
sync_validators(st, a, b) ==
    IF update_state_raises(st.shard_count, a) THEN st
    ELSE LET pa == update_state_on(st.pending, state_versions, a,
                                   [validators |-> st.shards[a]], now)
         IN  IF update_state_raises(st.shard_count, b)
             THEN AdjState(st.shards, st.shard_count, pa)
             ELSE AdjState(st.shards, st.shard_count,
                           update_state_on(pa, state_versions, b,
                                           [validators |-> st.shards[b]], now))

\* source_shard.validators -= set(validators_to_move)
transfer_source_keeps_moved(source, to_move) == source

transfer_source(source, to_move) == source \ to_move

\* target_shard.validators |= set(validators_to_move)
transfer_target(target, to_move) == target \cup to_move

\* validators_to_move = list(source_shard.validators)[:transfer_count]: a set
\* has no order of its own, so any transfer_count of them
redistribute_validators(st, from_shard, to_shard) ==
    LET source == st.shards[from_shard]
        transfer_count == Cardinality(source) \div 3
    IN  IF transfer_count < 1 THEN {st}
        ELSE {sync_validators(
                 AdjState([st.shards EXCEPT
                              ![from_shard] = transfer_source(source, M),
                              ![to_shard] = transfer_target(@, M)],
                          st.shard_count, st.pending),
                 from_shard, to_shard)
              : M \in {X \in SUBSET source : Cardinality(X) = transfer_count}}

split_second_half_whole(members, first_half) == members

\* the validators the new shard of a split gets: validators[mid:]
split_second_half(members, first_half) == members \ first_half

split_shard(st, shard_id) ==
    LET members == st.shards[shard_id]
        mid == Cardinality(members) \div 2
        new_shard_id == Cardinality(DOMAIN st.shards)
    IN  {sync_validators(
            AdjState(Put([st.shards EXCEPT ![shard_id] = F], new_shard_id,
                         split_second_half(members, F)),
                     st.shard_count + 1, st.pending),
            shard_id, new_shard_id)
         : F \in {X \in SUBSET members : Cardinality(X) = mid}}

handle_overloaded_shard(st, shard_id, underloaded) ==
    IF underloaded # <<>>
    THEN redistribute_validators(st, shard_id, underloaded[1])
    ELSE IF Cardinality(st.shards[shard_id]) >= min_shard_size * 2
    THEN split_shard(st, shard_id)
    ELSE {st}

RECURSIVE adjust_loop(_, _, _)
adjust_loop(sts, overloaded, underloaded) ==
    IF overloaded = <<>> THEN sts
    ELSE adjust_loop(UNION {handle_overloaded_shard(st, Head(overloaded), underloaded)
                            : st \in sts},
                     Tail(overloaded), underloaded)

adjust_shards ==
    /\ updates_made < MaxUpdates
    /\ UNCHANGED <<now, assigned, msgs, message_queue, pending_messages,
                   confirmed_messages, cross_shard_messages, tx_pools, state_versions,
                   completed_updates, state_cache>>
    /\ IF collect_metrics_raises \/ overloaded_shards = <<>>
       THEN /\ lastOp' = Call("adjust_shards", "false")
            /\ UNCHANGED <<shards, shard_count, pending_updates, updates_made>>
       ELSE \E st \in adjust_loop({AdjState(shards, shard_count, pending_updates)},
                                  overloaded_shards, underloaded_shards) :
                /\ shards' = st.shards
                /\ shard_count' = st.shard_count
                /\ pending_updates' = st.pending
                /\ updates_made' = updates_made + 1
                /\ lastOp' = Call("adjust_shards", "true")

\* -------------------------------------------------------------------- DPOS
Addresses == 1..NumAddresses
StakeAmounts == 0..MaxStake
VoteAmounts == {-1, 1, 2}

CallV(op, arg, result, ret) == [op |-> op, arg |-> arg, result |-> result, ret |-> ret]

Validator(address, stake_amount) ==
    [address |-> address, stake_amount |-> stake_amount, votes |-> 0,
     is_active |-> FALSE, last_block_time |-> 0]

Vote(voter, candidate, amount, t) ==
    [voter |-> voter, candidate |-> candidate, amount |-> amount, timestamp |-> t]

\* the keys of the validators dict
Registered == {validators[i].address : i \in DOMAIN validators}

\* the place of an address in the dict's insertion order
IndexOf(address) == CHOOSE i \in DOMAIN validators : validators[i].address = address

stake(address, amount) ==
    /\ Get(stakes, address, 0) + amount <= MaxStake
    /\ IF amount <= 0
       THEN /\ lastOp' = CallV("stake", address, "false", 0)
            /\ UNCHANGED stakes
       ELSE /\ stakes' = Put(stakes, address, Get(stakes, address, 0) + amount)
            /\ lastOp' = CallV("stake", address, "true", 0)
    /\ UNCHANGED <<now, max_validators, validators, votes, active_validators,
                   schedule, history, chain>>

register_validator(address) ==
    /\ IF address \notin DOMAIN stakes \/ Get(stakes, address, 0) <= 0
       THEN /\ lastOp' = CallV("register_validator", address, "false", 0)
            /\ UNCHANGED validators
       ELSE /\ validators' = IF address \in Registered THEN validators
                             ELSE Append(validators, Validator(address, stakes[address]))
            /\ lastOp' = CallV("register_validator", address, "true", 0)
    /\ UNCHANGED <<now, max_validators, stakes, votes, active_validators,
                   schedule, history, chain>>

vote_rejected_unchecked_amount(voter, candidate, amount) ==
    \/ voter \notin DOMAIN stakes
    \/ candidate \notin Registered

vote_rejected(voter, candidate, amount) ==
    \/ voter \notin DOMAIN stakes
    \/ amount > Get(stakes, voter, 0)
    \/ candidate \notin Registered

vote(voter, candidate, amount) ==
    /\ Len(votes) < MaxVotes
    /\ IF vote_rejected(voter, candidate, amount)
       THEN /\ lastOp' = CallV("vote", candidate, "false", 0)
            /\ UNCHANGED <<votes, validators>>
       ELSE /\ votes' = Append(votes, Vote(voter, candidate, amount, now))
            /\ validators' = [validators EXCEPT ![IndexOf(candidate)].votes = @ + amount]
            /\ lastOp' = CallV("vote", candidate, "true", 0)
    /\ UNCHANGED <<now, max_validators, stakes, active_validators, schedule,
                   history, chain>>

\* sorted(validators.values(), key=lambda x: x.votes, reverse=True): whether v,
\* which comes later in the dict, is placed before w.  The sort is stable, and
\* stays so under reverse=True, so only on strictly more votes.
sorts_before_ascending(v, w) == v.votes < w.votes

sorts_before(v, w) == v.votes > w.votes

RECURSIVE InsertSorted(_, _)
InsertSorted(sorted, v) ==
    IF sorted = <<>> THEN <<v>>
    ELSE IF sorts_before(v, Head(sorted)) THEN <<v>> \o sorted
    ELSE <<Head(sorted)>> \o InsertSorted(Tail(sorted), v)

RECURSIVE sorted_validators(_)
sorted_validators(vs) ==
    IF vs = <<>> THEN <<>>
    ELSE InsertSorted(sorted_validators(SubSeq(vs, 1, Len(vs) - 1)), vs[Len(vs)])

\* the addresses of sorted_validators[:max_validators]
selected_validators ==
    {v.address : v \in Range(Slice(sorted_validators(validators), 0, max_validators))}

update_active_validators ==
    /\ active_validators' = selected_validators
    /\ validators' = [i \in DOMAIN validators |->
                         [validators[i] EXCEPT
                             !.is_active = (validators[i].address \in selected_validators)]]
    /\ schedule' = {}
    /\ lastOp' = CallV("update_active_validators", 0, "none", 0)
    /\ UNCHANGED <<now, max_validators, stakes, votes, history, chain>>

\* int(current_time / block_interval)
BlockSlot_undivided(t) == t

BlockSlot(t) == t \div block_interval

\* sorted(list(active_validators))[int(current_time / block_interval) % len(...)];
\* the caller sees ZeroDivisionError when no validator is active
next_block_validator(t) ==
    Ascending(active_validators)[(BlockSlot(t) % Cardinality(active_validators)) + 1]

get_next_block_validator ==
    /\ IF active_validators = {}
       THEN /\ lastOp' = CallV("get_next_block_validator", 0, "ZeroDivisionError", 0)
            /\ UNCHANGED schedule
       ELSE /\ lastOp' = CallV("get_next_block_validator", 0, "address",
                               next_block_validator(now))
            /\ schedule' = schedule \cup {<<BlockSlot(now), next_block_validator(now)>>}
    /\ UNCHANGED <<now, max_validators, stakes, validators, votes,
                   active_validators, history, chain>>

\* ---------------------------------------------------------- ProofOfHistory
ZeroHash == <<>>          \* "0" * 64
NoData == <<>>            \* None
StrData(tx) == <<"str", tx>>
ListData(transactions) == <<"list", transactions>>      \* str(transactions)

\* hashlib.sha256 over the concatenated operands: one value per operand list
sha256(parts) == <<"sha256", parts>>

\* if data: None and the empty string are falsy
Truthy(data) == data # NoData /\ data # StrData("")

\* _hash(previous_hash, data): data is hashed only when truthy
poh_hash(previous_hash, data) ==
    IF Truthy(data) THEN sha256(<<previous_hash, data>>) ELSE sha256(<<previous_hash>>)

RECURSIVE hash_repeat(_, _)
hash_repeat(h, n) == IF n = 0 THEN h ELSE hash_repeat(poh_hash(h, NoData), n - 1)

HistoryNode(sequence, hash, data, t, counter) ==
    [sequence |-> sequence, hash |-> hash, data |-> data, timestamp |-> t,
     counter |-> counter]

GenesisNode == HistoryNode(0, ZeroHash, NoData, global_start_time, 0)

tick_node_data_not_none(previous_node, data, t) ==
    LET stepped == hash_repeat(previous_node.hash, difficulty)
    IN  HistoryNode(previous_node.sequence + 1,
                    IF data # NoData THEN poh_hash(stepped, data) ELSE stepped,
                    data, t,
                    previous_node.counter + difficulty + (IF data # NoData THEN 1 ELSE 0))

\* the node tick(data) appends after previous_node
tick_node(previous_node, data, t) ==
    LET stepped == hash_repeat(previous_node.hash, difficulty)
    IN  HistoryNode(previous_node.sequence + 1,
                    IF Truthy(data) THEN poh_hash(stepped, data) ELSE stepped,
                    data, t,
                    previous_node.counter + difficulty + (IF Truthy(data) THEN 1 ELSE 0))

tick(h, data, t) == Append(h, tick_node(h[Len(h)], data, t))

\* for tx in transactions: poh.tick(tx)
RECURSIVE tick_each(_, _, _)
tick_each(h, transactions, t) ==
    IF transactions = <<>> THEN h
    ELSE tick_each(tick(h, StrData(Head(transactions)), t), Tail(transactions), t)

\* the data callers tick with: None, "", "tx1", "tx2"
TickData == {NoData, StrData(""), StrData("tx1"), StrData("tx2")}

\* the indices callers verify with, in and out of range
VerifyIndices == -1..(MaxTicks + 1)

ProofOfHistory_tick(data) ==
    /\ Len(history) <= MaxTicks
    /\ history' = tick(history, data, now)
    /\ lastOp' = CallV("tick", data, "node", Len(history))
    /\ UNCHANGED <<now, max_validators, stakes, validators, votes,
                   active_validators, schedule, chain>>

\* the loop of verify from index i (0-based) up to end_index
RECURSIVE verify_from(_, _, _)
verify_from(h, i, end_index) ==
    IF i >= end_index THEN TRUE
    ELSE LET next_node == h[i + 2]
             stepped == hash_repeat(h[i + 1].hash, difficulty)
             current_hash == IF Truthy(next_node.data)
                             THEN poh_hash(stepped, next_node.data) ELSE stepped
         IN  IF current_hash # next_node.hash THEN FALSE
             ELSE verify_from(h, i + 1, end_index)

verify(h, start_index, end_index) ==
    IF start_index < 0 \/ end_index >= Len(h) THEN FALSE
    ELSE verify_from(h, start_index, end_index)

ProofOfHistory_verify(start_index, end_index) ==
    /\ lastOp' = CallV("verify", [start_index |-> start_index, end_index |-> end_index],
                       PyBool(verify(history, start_index, end_index)), <<>>)
    /\ UNCHANGED <<now, max_validators, stakes, validators, votes,
                   active_validators, schedule, history, chain>>

\* history is a public list of mutable nodes: code outside the class can
\* assign any field of any node
NotTampered == [index |-> -1, field |-> "none"]
NodeFields == {"sequence", "hash", "data", "timestamp", "counter"}

\* the values other than the present one that a field is changed to
OtherValues(node, field) ==
    CASE field = "sequence" -> {node.sequence + 1}
      [] field = "hash" -> {ZeroHash, poh_hash(ZeroHash, StrData("forged"))} \ {node.hash}
      [] field = "data" -> TickData \ {node.data}
      [] field = "timestamp" -> {node.timestamp + 1}
      [] field = "counter" -> {node.counter + 1}

with_field(node, field, value) ==
    CASE field = "sequence" -> [node EXCEPT !.sequence = value]
      [] field = "hash" -> [node EXCEPT !.hash = value]
      [] field = "data" -> [node EXCEPT !.data = value]
      [] field = "timestamp" -> [node EXCEPT !.timestamp = value]
      [] field = "counter" -> [node EXCEPT !.counter = value]

\* poh.history[index].<field> = value, once, with a value that differs
tamper(index, field, value) ==
    /\ tampered = NotTampered
    /\ index \in 0..(Len(history) - 1)
    /\ value \in OtherValues(history[index + 1], field)
    /\ history' = [history EXCEPT ![index + 1] = with_field(@, field, value)]
    /\ tampered' = [index |-> index, field |-> field]
    /\ lastOp' = CallV("tamper", [index |-> index, field |-> field], "none", <<>>)
    /\ UNCHANGED <<now, max_validators, stakes, validators, votes,
                   active_validators, schedule, chain>>
    /\ UNCHANGED <<slot_duration, min_shard_size, difficulty>>
    /\ UNCHANGED <<shardOnly, poolOnly, managerOnly, forkOnly>>

\* -------------------------------------------------------------- Blockchain
Block(height, t, previous_hash, transactions, validator, poh) ==
    [height |-> height, timestamp |-> t, previous_hash |-> previous_hash,
     transactions |-> transactions, validator |-> validator, signature |-> "",
     poh_hash |-> poh]

\* the decimal digits str(n) prints
RECURSIVE Digits(_)
Digits(n) == IF n < 10 THEN <<n>> ELSE Digits(n \div 10) \o <<n % 10>>

\* str(float(t)) for a whole number of seconds: the digits, ".", "0"
Dot == -1
FloatDigits(t) == Digits(t) \o <<Dot, 0>>

\* Block.hash: sha256 of f"{height}{timestamp}{previous_hash}{transactions}
\* {validator}{poh_hash}": height and timestamp run into one another, the
\* fields after them are delimited by their fixed width and brackets
BlockHash(b) ==
    sha256(<<Digits(b.height) \o FloatDigits(b.timestamp), b.previous_hash,
             b.transactions, b.validator, b.poh_hash>>)

GenesisBlock == Block(0, global_start_time, ZeroHash, <<>>, GenesisValidator, ZeroHash)

is_valid_block_ignores_hash(c, block) ==
    IF c = <<>> THEN block.height = 0
    ELSE block.height = c[Len(c)].height + 1

is_valid_block(c, block) ==
    IF c = <<>> THEN block.height = 0
    ELSE /\ block.height = c[Len(c)].height + 1
         /\ block.previous_hash = BlockHash(c[Len(c)])

TxLists == {<<>>, <<"tx1">>}

\* Blocks a caller hands to add_block
CandidateBlocks ==
    {Block(h, now, p, <<"tx1">>, 1, ZeroHash) :
        h \in 0..(Len(chain) + 1),
        p \in {ZeroHash, BlockHash(chain[Len(chain)]), BlockHash(chain[1])}}

Blockchain_add_block(block) ==
    /\ Len(chain) < MaxChain
    /\ IF is_valid_block(chain, block)
       THEN /\ chain' = Append(chain, block)
            /\ lastOp' = CallV("add_block", block.height, "true", 0)
       ELSE /\ lastOp' = CallV("add_block", block.height, "false", 0)
            /\ UNCHANGED chain
    /\ UNCHANGED <<now, max_validators, stakes, validators, votes,
                   active_validators, schedule, history>>

\* ------------------------------------------------------------- POHWithDPOS
produce_block_accepts_any_active(validator_address) ==
    validator_address \in active_validators

produce_block_accepts(validator_address) ==
    /\ validator_address \in active_validators
    /\ validator_address = next_block_validator(now)

produce_block(validator_address, transactions) ==
    /\ Len(history) + Len(transactions) <= MaxHistory
    /\ IF produce_block_accepts(validator_address)
       THEN /\ history' = tick_each(history, transactions, now)
            /\ validators' = [validators EXCEPT
                                 ![IndexOf(validator_address)].last_block_time = now]
            /\ lastOp' = CallV("produce_block", validator_address, "true", 0)
       ELSE /\ lastOp' = CallV("produce_block", validator_address, "false", 0)
            /\ UNCHANGED <<history, validators>>
    /\ UNCHANGED <<now, max_validators, stakes, votes, active_validators,
                   schedule, chain>>

\* --------------------------------------------------------- ConsensusSystem
create_block(validator, transactions) ==
    LET latest_block == chain[Len(chain)]
        node == tick_node(history[Len(history)], ListData(transactions), now)
        block == Block(latest_block.height + 1, now, BlockHash(latest_block),
                       transactions, validator, node.hash)
    IN  /\ Len(chain) < MaxChain
        /\ Len(history) < MaxHistory
        /\ history' = Append(history, node)
        /\ chain' = IF is_valid_block(chain, block) THEN Append(chain, block) ELSE chain
        /\ lastOp' = CallV("create_block", validator, "block", 0)
        /\ UNCHANGED <<now, max_validators, stakes, validators, votes,
                       active_validators, schedule>>

\* ---------------------------------------------------------------- the clock
\* time.time() moves on between two calls, up to the reading limit
Advance(limit) ==
    /\ now < limit
    /\ now' = now + 1
    /\ UNCHANGED lastOp

\* ---------------------------------------------------------- TransactionPool

\* the Transaction dataclass of transaction_pool.py
PoolTransaction(tx_id, data, timestamp, gas_price, size) ==
    [tx_id |-> tx_id, data |-> data, timestamp |-> timestamp,
     gas_price |-> gas_price, size |-> size]

PoolTxIds == 1..NumPoolTxIds

\* the transactions callers offer: any price, size and timestamp
PoolTransactions ==
    {PoolTransaction(i, "d", t, g, z) :
        i \in PoolTxIds, t \in 0..MaxTime, g \in 0..MaxGasPrice, z \in 0..MaxTxSize}

\* lists of tx_ids handed to remove_transactions
RemovalLists ==
    {<<>>} \cup {<<i>> : i \in PoolTxIds} \cup {<<i, j>> : i \in PoolTxIds, j \in PoolTxIds}

\* get_batch(max_size=n); 0 stands for None as well, both being falsy
Limits == 0..MaxLimit

\* tx_id in self.pending_txs
InPool(txs, tx_id) == \E i \in DOMAIN txs : txs[i].tx_id = tx_id

_validate_transaction(txs, tx) ==
    /\ tx.gas_price >= min_gas_price
    /\ tx.size > 0
    /\ ~InPool(txs, tx.tx_id)

\* tuple comparison of the heap entries (gas_price, tx_id)
EntryLess(a, b) == a[1] < b[1] \/ (a[1] = b[1] /\ a[2] < b[2])

HeapTop_greatest(pq) == CHOOSE e \in pq : \A f \in pq : f = e \/ EntryLess(f, e)

\* priority_queue[0], the least entry of the heap
HeapTop(pq) == CHOOSE e \in pq : \A f \in pq : f = e \/ EntryLess(e, f)

PopTx_keeps_entry(txs, tx_id) == txs

\* OrderedDict.pop(tx_id)
PopTx(txs, tx_id) == SelectSeq(txs, LAMBDA t : t.tx_id # tx_id)

TxOf(txs, tx_id) == txs[CHOOSE i \in DOMAIN txs : txs[i].tx_id = tx_id]

add_transaction(tx) ==
    /\ IF ~_validate_transaction(pending_txs, tx)
       THEN /\ lastOp' = CallV("add_transaction", tx, "False", <<>>)
            /\ UNCHANGED poolOnly
       ELSE IF Len(pending_txs) >= max_size
       THEN IF priority_queue = {}
            THEN \* priority_queue[0] of an empty list
                 /\ lastOp' = CallV("add_transaction", tx, "IndexError", <<>>)
                 /\ UNCHANGED poolOnly
            ELSE IF HeapTop(priority_queue)[1] < tx.gas_price
            THEN LET top == HeapTop(priority_queue)
                     removed_tx == TxOf(pending_txs, top[2])
                 IN  /\ pending_txs' = Append(PopTx(pending_txs, top[2]), tx)
                     /\ priority_queue' =
                            (priority_queue \ {top}) \cup {<<tx.gas_price, tx.tx_id>>}
                     /\ total_size' = total_size - removed_tx.size + tx.size
                     /\ lastOp' = CallV("add_transaction", tx, "True", <<>>)
            ELSE /\ lastOp' = CallV("add_transaction", tx, "False", <<>>)
                 /\ UNCHANGED poolOnly
       ELSE /\ pending_txs' = Append(pending_txs, tx)
            /\ priority_queue' = priority_queue \cup {<<tx.gas_price, tx.tx_id>>}
            /\ total_size' = total_size + tx.size
            /\ lastOp' = CallV("add_transaction", tx, "True", <<>>)
    /\ UNCHANGED now

\* key=lambda x: (-x.gas_price, x.timestamp)
PriorityBefore(a, b) ==
    a.gas_price > b.gas_price \/ (a.gas_price = b.gas_price /\ a.timestamp < b.timestamp)

\* sorted(...): a stable sort
RECURSIVE InsertByPriority(_, _)
InsertByPriority(sorted, tx) ==
    IF sorted = <<>> THEN <<tx>>
    ELSE IF PriorityBefore(tx, Head(sorted)) THEN <<tx>> \o sorted
    ELSE <<Head(sorted)>> \o InsertByPriority(Tail(sorted), tx)

RECURSIVE SortByPriority(_)
SortByPriority(txs) ==
    IF txs = <<>> THEN <<>>
    ELSE InsertByPriority(SortByPriority(SubSeq(txs, 1, Len(txs) - 1)), txs[Len(txs)])

\* the loop of get_batch over sorted_txs
RECURSIVE batch_loop(_, _, _, _)
batch_loop(batch, current_size, sorted_txs, batch_size) ==
    IF sorted_txs = <<>> \/ Len(batch) >= batch_size THEN batch
    ELSE LET tx == Head(sorted_txs)
         IN  IF current_size + tx.size <= max_size
             THEN batch_loop(Append(batch, tx), current_size + tx.size,
                             Tail(sorted_txs), batch_size)
             ELSE batch_loop(batch, current_size, Tail(sorted_txs), batch_size)

\* batch_size = max_size or self.max_batch_size
batch_size_of(limit) == IF limit # 0 THEN limit ELSE max_batch_size

batch_of(txs, limit) == batch_loop(<<>>, 0, SortByPriority(txs), batch_size_of(limit))

get_batch(limit) ==
    /\ lastOp' = CallV("get_batch", limit, "ok", batch_of(pending_txs, limit))
    /\ UNCHANGED <<now, poolOnly>>

PlState(txs, pq, total) == [txs |-> txs, pq |-> pq, total |-> total]

remove_loop_stale_heap(st, tx_ids) ==
    IF tx_ids = <<>> \/ ~InPool(st.txs, Head(tx_ids)) THEN st
    ELSE PlState(PopTx(st.txs, Head(tx_ids)), st.pq,
                 st.total - TxOf(st.txs, Head(tx_ids)).size)

\* for tx_id in tx_ids: pop the transaction and rebuild the heap without it
RECURSIVE remove_loop(_, _)
remove_loop(st, tx_ids) ==
    IF tx_ids = <<>> THEN st
    ELSE LET tx_id == Head(tx_ids)
         IN  IF InPool(st.txs, tx_id)
             THEN remove_loop(
                     PlState(PopTx(st.txs, tx_id),
                             {e \in st.pq : e[2] # tx_id},
                             st.total - TxOf(st.txs, tx_id).size),
                     Tail(tx_ids))
             ELSE remove_loop(st, Tail(tx_ids))

remove_transactions(tx_ids) ==
    LET st == remove_loop(PlState(pending_txs, priority_queue, total_size), tx_ids)
    IN  /\ pending_txs' = st.txs
        /\ priority_queue' = st.pq
        /\ total_size' = st.total
        /\ lastOp' = CallV("remove_transactions", Len(tx_ids), "none", <<>>)
        /\ UNCHANGED now

\* ------------------------------------------------------------- ShardManager

ShardAssignment(validator, shard_id, amount) ==
    [validator |-> validator, shard_id |-> shard_id, stake |-> amount,
     performance_score |-> DefaultScore]

\* lists of distinct validators, in any order
AssignedLists ==
    UNION {{vs \in [1..k -> 1..NumAssigned] : \A i, j \in 1..k : vs[i] = vs[j] => i = j}
           : k \in 0..NumAssigned}

\* stakes: all different, tied in pairs, and one that leaves the last
\* validator out
StakeMaps ==
    {[v \in 1..NumAssigned |-> NumAssigned + 1 - v],
     [v \in 1..NumAssigned |-> (v + 1) \div 2],
     [v \in 1..(NumAssigned - 1) |-> 1]}

\* performance scores, in tenths
Scores == {5, 10}

\* sorted(validators, key=lambda v: stakes.get(v, 0), reverse=True): stable
RECURSIVE InsertByStake(_, _, _)
InsertByStake(sorted, v, stk) ==
    IF sorted = <<>> THEN <<v>>
    ELSE IF Get(stk, v, 0) > Get(stk, Head(sorted), 0) THEN <<v>> \o sorted
    ELSE <<Head(sorted)>> \o InsertByStake(Tail(sorted), v, stk)

RECURSIVE SortByStake(_, _)
SortByStake(vs, stk) ==
    IF vs = <<>> THEN <<>>
    ELSE InsertByStake(SortByStake(SubSeq(vs, 1, Len(vs) - 1), stk), vs[Len(vs)], stk)

select_shard_for_validator_fullest(sv) ==
    CHOOSE s \in DOMAIN sv : \A t \in DOMAIN sv :
        \/ Cardinality(sv[s]) > Cardinality(sv[t])
        \/ (Cardinality(sv[s]) = Cardinality(sv[t]) /\ s <= t)

\* min((len(validators), shard_id) for ...)[1]
select_shard_for_validator(sv) ==
    CHOOSE s \in DOMAIN sv : \A t \in DOMAIN sv :
        \/ Cardinality(sv[s]) < Cardinality(sv[t])
        \/ (Cardinality(sv[s]) = Cardinality(sv[t]) /\ s <= t)

MgState(sv, asg, raised) == [sv |-> sv, asg |-> asg, raised |-> raised]

\* _assign_validator
assign_validator(st, validator, shard_id, amount) ==
    MgState([st.sv EXCEPT ![shard_id] = @ \cup {validator}],
            Put(st.asg, validator, ShardAssignment(validator, shard_id, amount)),
            FALSE)

\* the loop of initialize_shards; stakes[validator] raises KeyError
RECURSIVE assign_loop(_, _, _)
assign_loop(st, sorted_vs, stk) ==
    IF sorted_vs = <<>> THEN st
    ELSE LET validator == Head(sorted_vs)
         IN  IF validator \notin DOMAIN stk THEN MgState(st.sv, st.asg, TRUE)
             ELSE assign_loop(assign_validator(st, validator,
                                               select_shard_for_validator(st.sv),
                                               stk[validator]),
                              Tail(sorted_vs), stk)

ShardManager_initialize_shards(vs, stk) ==
    LET reset == [s \in 0..(shard_count - 1) |-> {}] @@ shard_validators
        st == assign_loop(MgState(reset, assignments, FALSE), SortByStake(vs, stk), stk)
    IN  /\ validator_stakes' = stk
        /\ shard_validators' = st.sv
        /\ assignments' = st.asg
        /\ lastOp' = CallV("initialize_shards", [validators |-> vs, stakes |-> stk],
                           IF st.raised THEN "KeyError" ELSE "none", <<>>)
        /\ UNCHANGED now

update_validator_performance(validator, score) ==
    /\ assignments' = IF validator \in DOMAIN assignments
                      THEN [assignments EXCEPT ![validator].performance_score = score]
                      ELSE assignments
    /\ lastOp' = CallV("update_validator_performance", validator, "none", <<>>)
    /\ UNCHANGED <<now, shard_validators, validator_stakes>>

\* sum(self.validator_stakes.get(v, 0) for v in validators)
RECURSIVE total_stake(_)
total_stake(members) ==
    IF members = {} THEN 0
    ELSE LET v == CHOOSE x \in members : TRUE
         IN  Get(validator_stakes, v, 0) + total_stake(members \ {v})

RECURSIVE SumStakes(_, _)
SumStakes(sv, ids) ==
    IF ids = {} THEN 0
    ELSE LET s == CHOOSE x \in ids : TRUE
         IN  total_stake(sv[s]) + SumStakes(sv, ids \ {s})

\* _rebalance_shard(target_shard_id, avg_stake): with current_stake below
\* target_stake = total / n the loop calls self._find_donor_validator, which
\* ShardManager does not define: AttributeError
rebalance_shard_raises(sv, target_shard_id, total, n) ==
    total_stake(sv[target_shard_id]) * n < total

\* for shard_id, (stake, performance) in shard_metrics.items():
\*     if stake < avg_stake * 0.8: self._rebalance_shard(shard_id, avg_stake)
below_average(sv, shard_id, total, n) == 5 * n * total_stake(sv[shard_id]) < 4 * total

\* shard_validators[shard_id] and assignments[v] raise KeyError
rebalance_raises ==
    \E s \in 0..(shard_count - 1) :
        \/ s \notin DOMAIN shard_validators
        \/ \E v \in shard_validators[s] : v \notin DOMAIN assignments

rebalance_shards ==
    LET ids == 0..(shard_count - 1)
        total == SumStakes(shard_validators, ids)
    IN  /\ lastOp' = CallV("rebalance_shards", 0,
                           IF rebalance_raises THEN "KeyError"
                           ELSE IF \E s \in ids :
                                      /\ below_average(shard_validators, s, total, shard_count)
                                      /\ rebalance_shard_raises(shard_validators, s, total,
                                                                shard_count)
                                THEN "AttributeError"
                                ELSE "none",
                           <<>>)
        /\ UNCHANGED <<now, assignments, shard_validators, validator_stakes>>

\* --------------------------------------------------------------- ForkChoice
\* head = "": no hash is the empty string
NoHead == <<"">>

\* blocks handed to ForkChoice: the genesis block, two blocks built on it in
\* turn, a block of height 2 that names no parent, and a block on the second
\* that skips a height
LinkedBlock(previous_block, height) ==
    Block(height, global_start_time, BlockHash(previous_block), <<"tx1">>, 1, ZeroHash)

ForkBlocks ==
    LET b1 == LinkedBlock(GenesisBlock, 1)
    IN  {GenesisBlock, b1, LinkedBlock(b1, 2), LinkedBlock(b1, 3),
         Block(2, global_start_time, ZeroHash, <<"tx1">>, 1, ZeroHash)}

\* the lists a caller hands to is_valid_chain
ForkChains == UNION {[1..n -> ForkBlocks] : n \in 0..MaxForkBlocks}

is_valid_chain_ignores_height(c) ==
    /\ c # <<>>
    /\ \A i \in 2..Len(c) : c[i].previous_hash = BlockHash(c[i - 1])

valid_from_ignores_link(c, i) ==
    \A k \in i..Len(c) : c[k].height = c[k - 1].height + 1

\* the loop of is_valid_chain from index i (1-based) on
RECURSIVE valid_from(_, _)
valid_from(c, i) ==
    IF i > Len(c) THEN TRUE
    ELSE IF c[i].height # c[i - 1].height + 1 THEN FALSE
    ELSE IF c[i].previous_hash # BlockHash(c[i - 1]) THEN FALSE
    ELSE valid_from(c, i + 1)

is_valid_chain(c) == IF c = <<>> THEN FALSE ELSE valid_from(c, 2)

\* chains is an insertion-ordered dict: a sequence of [id, blocks]
ChainIds(cs) == {cs[i].id : i \in DOMAIN cs}
ChainOf(cs, chain_id) ==
    IF chain_id \in ChainIds(cs)
    THEN cs[CHOOSE i \in DOMAIN cs : cs[i].id = chain_id].blocks
    ELSE <<>>

is_better_or_equal(c, max_length) == Len(c) >= max_length /\ is_valid_chain(c)

\* if len(chain) > max_length and self.is_valid_chain(chain)
is_better(c, max_length) == Len(c) > max_length /\ is_valid_chain(c)

\* the scan of select_best_chain from bucket i on
RECURSIVE best_chain_from(_, _, _, _)
best_chain_from(cs, i, max_length, best_chain) ==
    IF i > Len(cs) THEN best_chain
    ELSE IF is_better(cs[i].blocks, max_length)
    THEN best_chain_from(cs, i + 1, Len(cs[i].blocks), cs[i].id)
    ELSE best_chain_from(cs, i + 1, max_length, best_chain)

select_best_chain(cs) == best_chain_from(cs, 1, 0, NoHead)

\* self.chains[chain_id].append(block), after the bucket is created if absent
chains_with(cs, block) ==
    LET chain_id == block.previous_hash
    IN  IF chain_id \in ChainIds(cs)
        THEN [i \in DOMAIN cs |->
                 IF cs[i].id = chain_id
                 THEN [cs[i] EXCEPT !.blocks = Append(@, block)]
                 ELSE cs[i]]
        ELSE Append(cs, [id |-> chain_id, blocks |-> <<block>>])

BlocksHeld(cs, i) == IF i > Len(cs) THEN 0 ELSE Len(cs[i].blocks)

ForkChoice_add_block(block) ==
    LET cs == chains_with(chains, block)
    IN  /\ BlocksHeld(chains, 1) + BlocksHeld(chains, 2) + BlocksHeld(chains, 3)
              < MaxForkBlocks
        /\ chains' = cs
        /\ head' = select_best_chain(cs)
        /\ lastOp' = CallV("add_block", block, "True", <<>>)
        /\ UNCHANGED <<now, block_votes>>

ForkChoice_is_valid_chain(c) ==
    /\ lastOp' = CallV("is_valid_chain", c, PyBool(is_valid_chain(c)), <<>>)
    /\ UNCHANGED <<now, chains, head, block_votes>>

\* -------------------------------------------------------- BlockConfirmation
\* the block hashes and validators callers vote with
VotedHashes == {"h1", "h2"}
Voters == 1..NumVoters

votes_after_toggling(bv, block_hash, validator) ==
    LET voters == Get(bv, block_hash, {})
    IN  Put(bv, block_hash, IF validator \in voters THEN voters \ {validator}
                            ELSE voters \cup {validator})

\* block_votes after vote_block's setdefault and add
votes_after(bv, block_hash, validator) ==
    Put(bv, block_hash, Get(bv, block_hash, {}) \cup {validator})

is_block_confirmed_in_above(bv, block_hash) ==
    /\ block_hash \in DOMAIN bv
    /\ Cardinality(bv[block_hash]) > required_confirmations

\* what is_block_confirmed returns on block_votes bv
is_block_confirmed_in(bv, block_hash) ==
    /\ block_hash \in DOMAIN bv
    /\ Cardinality(bv[block_hash]) >= required_confirmations

vote_block(block_hash, validator) ==
    LET bv == votes_after(block_votes, block_hash, validator)
    IN  /\ block_votes' = bv
        /\ lastOp' = CallV("vote_block",
                           [block_hash |-> block_hash, validator |-> validator],
                           PyBool(is_block_confirmed_in(bv, block_hash)), <<>>)
        /\ UNCHANGED <<now, chains, head>>

is_block_confirmed(block_hash) ==
    /\ lastOp' = CallV("is_block_confirmed", block_hash,
                       PyBool(is_block_confirmed_in(block_votes, block_hash)), <<>>)
    /\ UNCHANGED <<now, chains, head, block_votes>>

get_block_votes(block_hash) ==
    /\ lastOp' = CallV("get_block_votes", block_hash, "int",
                       IF block_hash \in DOMAIN block_votes
                       THEN Cardinality(block_votes[block_hash]) ELSE 0)
    /\ UNCHANGED <<now, chains, head, block_votes>>

\* ------------------------------------------------------------ construction
ManagersConstructed ==
    /\ shards = EmptyDict
    /\ shard_count = InitialShardCount
    /\ assigned = {}
    /\ msgs = <<>>
    /\ message_queue = EmptyDict
    /\ pending_messages = EmptyDict
    /\ confirmed_messages = {}
    /\ cross_shard_messages = [s \in 0..(InitialShardCount - 1) |-> <<>>]
    /\ tx_pools = [s \in 0..(InitialShardCount - 1) |-> <<>>]
    /\ state_versions = [s \in 0..(InitialShardCount - 1) |-> 0]
    /\ completed_updates = {}
    /\ state_cache = [s \in 0..(InitialShardCount - 1) |-> DefaultState]
    /\ updates_made = 0

ShardsConstructed ==
    /\ ManagersConstructed
    /\ pending_updates = <<>>

\* DPOS(max_validators=n, block_interval), ProofOfHistory(difficulty), Blockchain()
ConsensusConstructed(n) ==
    /\ max_validators = n
    /\ stakes = EmptyDict
    /\ validators = <<>>
    /\ votes = <<>>
    /\ active_validators = {}
    /\ schedule = {}
    /\ history = <<GenesisNode>>
    /\ chain = <<GenesisBlock>>

\* TransactionPool(max_size, max_batch_size, min_gas_price)
PoolConstructed ==
    /\ pending_txs = <<>>
    /\ priority_queue = {}
    /\ total_size = 0

\* ShardManager(time_sharding)
ShardManagerConstructed ==
    /\ assignments = EmptyDict
    /\ shard_validators = EmptyDict
    /\ validator_stakes = EmptyDict

\* ForkChoice(), BlockConfirmation(required_confirmations)
ForkChoiceConstructed ==
    /\ chains = <<>>
    /\ head = NoHead
    /\ block_votes = EmptyDict

\* the subsystems a specification leaves as constructed, with the arguments
\* min_shard_size = 1 and difficulty = 1
RestConstructed ==
    /\ min_shard_size = 1
    /\ difficulty = 1
    /\ tampered = NotTampered
    /\ PoolConstructed
    /\ ShardManagerConstructed
    /\ ForkChoiceConstructed

ShardInit ==
    /\ now = global_start_time
    /\ lastOp = Call("init", "none")
    /\ slot_duration = 1
    /\ ShardsConstructed
    /\ ConsensusConstructed(0)
    /\ RestConstructed

\* a TimeShardingManager constructed with any of the slot durations
SlotDurations == {0, 1}

ReadinessInit ==
    /\ now = global_start_time
    /\ lastOp = Call("init", "none")
    /\ slot_duration \in SlotDurations
    /\ ShardsConstructed
    /\ ConsensusConstructed(0)
    /\ RestConstructed

ConsensusInit ==
    /\ now = global_start_time
    /\ lastOp = Call("init", "none")
    /\ slot_duration = 1
    /\ ShardsConstructed
    /\ \E n \in 1..MaxActive : ConsensusConstructed(n)
    /\ RestConstructed

\* pending_updates holding one update of shard 0 for each version
\* 1..NumVersions, received in any order at the clock readings 0, 1, ...
ReceivedOrders ==
    {o \in [1..NumVersions -> 1..NumVersions] : \A i, j \in 1..NumVersions : o[i] = o[j] => i = j}

SyncOrderInit ==
    /\ now = NumVersions
    /\ lastOp = Call("init", "none")
    /\ slot_duration = 1
    /\ ManagersConstructed
    /\ ConsensusConstructed(0)
    /\ RestConstructed
    /\ \E o \in ReceivedOrders, d \in [1..NumVersions -> StateData] :
          pending_updates = [k \in 1..NumVersions |->
                                StateUpdate(UpdateId(k - 1, 0, o[k]), 0, d[o[k]],
                                            k - 1, o[k])]

PoolInit ==
    /\ now = global_start_time
    /\ lastOp = CallV("init", 0, "none", <<>>)
    /\ slot_duration = 1
    /\ ShardsConstructed
    /\ ConsensusConstructed(0)
    /\ RestConstructed

\* enough validators to fill every shard
AmpleValidatorLists ==
    {[i \in 1..k |-> i] : k \in 0..(InitialShardCount * validators_per_shard)}

\* a DynamicShardManager constructed with any min_shard_size
MinSizeInit ==
    /\ now = global_start_time
    /\ lastOp = Call("init", "none")
    /\ slot_duration = 1
    /\ ShardsConstructed
    /\ ConsensusConstructed(0)
    /\ min_shard_size \in 1..MaxMinShardSize
    /\ difficulty = 1
    /\ tampered = NotTampered
    /\ PoolConstructed
    /\ ShardManagerConstructed
    /\ ForkChoiceConstructed

\* a ProofOfHistory constructed with any difficulty
HistoryInit ==
    /\ now = global_start_time
    /\ lastOp = CallV("init", 0, "none", <<>>)
    /\ slot_duration = 1
    /\ ShardsConstructed
    /\ ConsensusConstructed(0)
    /\ min_shard_size = 1
    /\ difficulty \in 0..MaxDifficulty
    /\ tampered = NotTampered
    /\ PoolConstructed
    /\ ShardManagerConstructed
    /\ ForkChoiceConstructed

\* a TimeShardingManager constructed with any positive slot_duration
SlotsInit ==
    /\ now = global_start_time
    /\ lastOp = Call("init", "none")
    /\ slot_duration \in 1..MaxSlotDuration
    /\ ShardsConstructed
    /\ ConsensusConstructed(0)
    /\ RestConstructed

\* ----------------------------------------------------------- specifications
\* cross-shard messaging
MessagingNext ==
    \/ Advance(MaxTime) /\ UNCHANGED <<shardOnly, exceptShard>>
    \/ \E vs \in ValidatorLists : initialize_shards(vs) /\ UNCHANGED exceptShard
    \/ \E f \in ShardIds, t \in ShardIds, d \in Payloads :
          send_cross_shard_message(f, t, d) /\ UNCHANGED exceptShard
    \/ \E s \in ShardIds : process_messages(s) /\ UNCHANGED exceptShard

SpecMessaging == ShardInit /\ [][MessagingNext]_vars

\* cross-shard messaging over a TimeShardingManager of any slot duration
SpecReadiness == ReadinessInit /\ [][MessagingNext]_vars

\* transaction routing over the cross-shard channel
RoutingNext ==
    \/ Advance(MaxTime) /\ UNCHANGED <<shardOnly, exceptShard>>
    \/ \E vs \in ValidatorLists : initialize_shards(vs) /\ UNCHANGED exceptShard
    \/ \E tx \in Transactions : route_transaction(tx) /\ UNCHANGED exceptShard
    \/ \E s \in ShardIds : process_shard_transactions(s) /\ UNCHANGED exceptShard
    \/ \E s \in ShardIds : process_messages(s) /\ UNCHANGED exceptShard

SpecRouting == ShardInit /\ [][RoutingNext]_vars

\* versioned state synchronisation
SyncNext ==
    \/ Advance(MaxTime) /\ UNCHANGED <<shardOnly, exceptShard>>
    \/ \E s \in AnyShardIds, d \in StateData : update_state(s, d) /\ UNCHANGED exceptShard
    \/ \E s \in AnyShardIds : sync_state(s) /\ UNCHANGED exceptShard

SpecSync == ShardInit /\ [][SyncNext]_vars

\* sync_state over updates received in any order
SyncOrderNext ==
    \E s \in ShardIds : sync_state(s) /\ UNCHANGED exceptShard

SpecSyncOrder == SyncOrderInit /\ [][SyncOrderNext]_vars

\* the transaction pool
PoolNext ==
    \/ \E tx \in PoolTransactions : add_transaction(tx) /\ UNCHANGED exceptPool
    \/ \E tx_ids \in RemovalLists : remove_transactions(tx_ids) /\ UNCHANGED exceptPool
    \/ \E limit \in Limits : get_batch(limit) /\ UNCHANGED exceptPool

SpecPool == PoolInit /\ [][PoolNext]_vars

\* dynamic shard adjustment driven by the load of the local pools
RebalanceNext ==
    \/ Advance(MaxTime) /\ UNCHANGED <<shardOnly, exceptShard>>
    \/ \E vs \in ValidatorLists : initialize_shards(vs) /\ UNCHANGED exceptShard
    \/ \E tx \in LocalTransactions : route_transaction(tx) /\ UNCHANGED exceptShard
    \/ \E s \in ShardIds : process_shard_transactions(s) /\ UNCHANGED exceptShard
    \/ \E s \in ShardIds : sync_state(s) /\ UNCHANGED exceptShard
    \/ adjust_shards /\ UNCHANGED exceptShard

SpecRebalance == ShardInit /\ [][RebalanceNext]_vars

\* dynamic shard adjustment over full shards, for every min_shard_size
MinSizeNext ==
    \/ \E vs \in AmpleValidatorLists : initialize_shards(vs) /\ UNCHANGED exceptShard
    \/ \E tx \in LocalTransactions : route_transaction(tx) /\ UNCHANGED exceptShard
    \/ adjust_shards /\ UNCHANGED exceptShard

SpecMinSize == MinSizeInit /\ [][MinSizeNext]_vars

\* dynamic shard adjustment over full shards followed by state synchronisation
VisibilityNext ==
    \/ \E vs \in AmpleValidatorLists : initialize_shards(vs) /\ UNCHANGED exceptShard
    \/ \E tx \in LocalTransactions : route_transaction(tx) /\ UNCHANGED exceptShard
    \/ adjust_shards /\ UNCHANGED exceptShard
    \/ \E s \in ShardIds : sync_state(s) /\ UNCHANGED exceptShard

SpecVisibility == MinSizeInit /\ [][VisibilityNext]_vars

\* stake-ordered shard assignment and rebalancing; initialize_shards is
\* called on a ShardManager that has assigned nothing yet
AssignmentNext ==
    \/ \E vs \in AssignedLists, stk \in StakeMaps :
          /\ assignments = EmptyDict
          /\ ShardManager_initialize_shards(vs, stk)
          /\ UNCHANGED exceptManager
    \/ \E v \in 1..NumAssigned, score \in Scores :
          update_validator_performance(v, score) /\ UNCHANGED exceptManager
    \/ rebalance_shards /\ UNCHANGED exceptManager

SpecAssignment == PoolInit /\ [][AssignmentNext]_vars

\* votes on blocks and the confirmation threshold
ConfirmationNext ==
    \/ \E h \in VotedHashes, v \in Voters : vote_block(h, v) /\ UNCHANGED exceptFork
    \/ \E h \in VotedHashes : is_block_confirmed(h) /\ UNCHANGED exceptFork
    \/ \E h \in VotedHashes : get_block_votes(h) /\ UNCHANGED exceptFork

SpecConfirmation == PoolInit /\ [][ConfirmationNext]_vars

\* fork choice over blocks received in any order
ForkChoiceNext ==
    \/ \E b \in ForkBlocks : ForkChoice_add_block(b) /\ UNCHANGED exceptFork
    \/ \E c \in ForkChains : ForkChoice_is_valid_chain(c) /\ UNCHANGED exceptFork

SpecForkChoice == PoolInit /\ [][ForkChoiceNext]_vars

\* the hash chain: ticks with and without data, and verification of ranges
HistoryNext ==
    \/ \E data \in TickData : ProofOfHistory_tick(data) /\ UNCHANGED exceptConsensus
    \/ \E i \in VerifyIndices, j \in VerifyIndices :
          ProofOfHistory_verify(i, j) /\ UNCHANGED exceptConsensus

SpecHistory == HistoryInit /\ [][HistoryNext]_vars

\* the time slots as time passes and the shards are adjusted
SlotsNext ==
    \/ Advance(MaxSlotTime) /\ UNCHANGED <<shardOnly, exceptShard>>
    \/ \E vs \in AmpleValidatorLists : initialize_shards(vs) /\ UNCHANGED exceptShard
    \/ \E tx \in LocalTransactions : route_transaction(tx) /\ UNCHANGED exceptShard
    \/ adjust_shards /\ UNCHANGED exceptShard
    \/ get_current_time_slot /\ UNCHANGED exceptShard

SpecSlots == SlotsInit /\ [][SlotsNext]_vars

\* the hash chain with one field of one node changed from outside
TamperNext ==
    \/ \E data \in TickData : ProofOfHistory_tick(data) /\ UNCHANGED exceptConsensus
    \/ \E index \in 0..(Len(history) - 1), field \in NodeFields :
          \E value \in OtherValues(history[index + 1], field) :
             tamper(index, field, value)
    \/ \E i \in VerifyIndices, j \in VerifyIndices :
          ProofOfHistory_verify(i, j) /\ UNCHANGED exceptConsensus

SpecTamper == HistoryInit /\ [][TamperNext]_vars

\* DPoS: staking, registration, voting and the election
ElectionNext ==
    \/ \E a \in Addresses, n \in StakeAmounts : stake(a, n) /\ UNCHANGED exceptConsensus
    \/ \E a \in Addresses : register_validator(a) /\ UNCHANGED exceptConsensus
    \/ \E a \in Addresses, c \in Addresses, n \in VoteAmounts :
          vote(a, c, n) /\ UNCHANGED exceptConsensus
    \/ update_active_validators /\ UNCHANGED exceptConsensus

SpecElection == ConsensusInit /\ [][ElectionNext]_vars

\* the producer schedule of an elected validator set as time passes
ScheduleNext ==
    \/ Advance(MaxBlockTime) /\ UNCHANGED <<shardOnly, exceptShard>>
    \/ \E a \in Addresses : stake(a, 1) /\ UNCHANGED exceptConsensus
    \/ \E a \in Addresses : register_validator(a) /\ UNCHANGED exceptConsensus
    \/ update_active_validators /\ UNCHANGED exceptConsensus
    \/ get_next_block_validator /\ UNCHANGED exceptConsensus

SpecSchedule == ConsensusInit /\ [][ScheduleNext]_vars

\* block production over an elected validator set
ProductionNext ==
    \/ Advance(MaxTime) /\ UNCHANGED <<shardOnly, exceptShard>>
    \/ \E a \in Addresses : stake(a, 1) /\ UNCHANGED exceptConsensus
    \/ \E a \in Addresses : register_validator(a) /\ UNCHANGED exceptConsensus
    \/ update_active_validators /\ UNCHANGED exceptConsensus
    \/ \E a \in Addresses, txs \in TxLists : produce_block(a, txs) /\ UNCHANGED exceptConsensus
    \/ \E a \in Addresses, txs \in TxLists : create_block(a, txs) /\ UNCHANGED exceptConsensus
    \/ \E b \in CandidateBlocks : Blockchain_add_block(b) /\ UNCHANGED exceptConsensus

SpecProduction == ConsensusInit /\ [][ProductionNext]_vars

\* ==================================================================== claims

\* C1: from initialize_shards with distinct validators on, through every
\* adjust_shards (transfers and splits), the shards' validator sets are pairwise
\* disjoint and their union is the set initialize_shards assigned.
C1_EveryValidatorInExactlyOneShard ==
    /\ \A a \in DOMAIN shards : \A b \in DOMAIN shards :
          a # b => shards[a] \cap shards[b] = {}
    /\ UNION {shards[a] : a \in DOMAIN shards} = assigned

\* a transfer into shard 1 and a split have both happened
C1_Witness ==
    /\ lastOp = Call("adjust_shards", "true")
    /\ shard_count > InitialShardCount
    /\ 1 \in DOMAIN shards
    /\ \E v \in 1..validators_per_shard : v \in shards[1]

\* C2: after send_cross_shard_message(A, B, data) the message is pending, its
\* id is in pending_messages and not in confirmed_messages; process_messages(B)
\* on a ready shard B leaves every message that was queued for B confirmed, its
\* id in confirmed_messages and out of pending_messages, and B's queue empty
\* (so that a further process_messages(B) finds nothing to do).
C2_SendPendingThenProcessConfirms ==
    [][ /\ \A f \in ShardIds, t \in ShardIds, d \in Payloads :
              send_cross_shard_message(f, t, d) =>
                  /\ msgs'[Len(msgs')].status = "pending"
                  /\ MessageId("msg", now, f, t) \in DOMAIN pending_messages'
                  /\ MessageId("msg", now, f, t) \notin confirmed_messages'
        /\ \A s \in ShardIds :
              (process_messages(s) /\ s \in DOMAIN message_queue /\ verify_shard_ready(s)) =>
                  /\ \A k \in DOMAIN message_queue[s] :
                        LET m == msgs'[message_queue[s][k]]
                        IN  /\ m.status = "confirmed"
                            /\ m.message_id \in confirmed_messages'
                            /\ m.message_id \notin DOMAIN pending_messages'
                  /\ message_queue'[s] = <<>>
      ]_vars

\* C3: no two StateUpdates of one shard carry the same version: successive
\* update_state calls get strictly increasing versions, synced in between or not.
C3_VersionsStrictlyIncrease ==
    \A i \in DOMAIN pending_updates : \A j \in DOMAIN pending_updates :
        (i < j /\ pending_updates[i].shard_id = pending_updates[j].shard_id)
            => pending_updates[i].version < pending_updates[j].version

\* C4: route_transaction(tx) appends a local transaction to the pool of its
\* shard and to no other; a cross-shard one never enters a local pool and is
\* sent over the cross-shard channel: queued under to_shard as a pending
\* in-flight message, which process_messages(to_shard) confirms.
C4_RouteLocalOrSend ==
    [][ \A tx \in Transactions :
            (route_transaction(tx) /\ lastOp'.result = "true") =>
                IF tx.from_shard = tx.to_shard
                THEN tx_pools' = [tx_pools EXCEPT ![tx.from_shard] = Append(@, tx)]
                ELSE /\ tx_pools' = tx_pools
                     /\ tx.to_shard \in DOMAIN message_queue'
                     /\ \E k \in DOMAIN message_queue'[tx.to_shard] :
                           LET m == msgs'[message_queue'[tx.to_shard][k]]
                           IN  /\ m.from_shard = tx.from_shard
                               /\ m.to_shard = tx.to_shard
                               /\ m.data = tx.data
                               /\ m.status = "pending"
                               /\ m.message_id \in DOMAIN pending_messages'
      ]_vars

\* C5: produce_block(validator, transactions) returns false and leaves the PoH
\* history, the ledger and every validator's last_block_time as they were
\* whenever validator is not active (the active set may be empty) or is not the
\* producer scheduled for the current time: the active validator with exactly
\* floor(now / block_interval) mod |active| active addresses below it.
C5_RejectedProductionChangesNothing ==
    [][ \A a \in Addresses, txs \in TxLists :
            LET n == Cardinality(active_validators)
                scheduled ==
                    /\ a \in active_validators
                    /\ Cardinality({b \in active_validators : b < a})
                          = (now \div block_interval) % n
            IN  (produce_block(a, txs) /\ ~scheduled) =>
                    /\ lastOp'.result = "false"
                    /\ history' = history
                    /\ chain' = chain
                    /\ \A i \in DOMAIN validators :
                          validators'[i].last_block_time = validators[i].last_block_time
      ]_vars

\* an active validator was turned away out of its turn, after a block had been
\* produced that ticked the history and stamped a last_block_time
C5_Witness ==
    /\ lastOp.op = "produce_block"
    /\ lastOp.result = "false"
    /\ lastOp.arg \in active_validators
    /\ Len(history) > 1
    /\ \E i \in DOMAIN validators : validators[i].last_block_time > 0

\* C6: a successful block production ticks the transactions into the PoH
\* history, appends to the ledger one Block with height = parent height + 1 and
\* previous_hash = the parent's hash, and stamps the producer's
\* last_block_time; and whatever block enters the ledger names the scheduled
\* active validator as its producer.
C6_ProductionAppendsOneScheduledBlock ==
    [][ /\ \A a \in Addresses, txs \in TxLists :
              (produce_block(a, txs) /\ lastOp'.result = "true") =>
                  /\ Len(history') = Len(history) + Len(txs)
                  /\ Len(chain') = Len(chain) + 1
                  /\ chain'[Len(chain')].height = chain[Len(chain)].height + 1
                  /\ chain'[Len(chain')].previous_hash = BlockHash(chain[Len(chain)])
                  /\ validators'[IndexOf(a)].last_block_time = now
        /\ \A a \in Addresses, txs \in TxLists :
              (create_block(a, txs) /\ Len(chain') > Len(chain)) =>
                  /\ a \in active_validators
                  /\ Cardinality({b \in active_validators : b < a})
                        = (now \div block_interval) % Cardinality(active_validators)
                  /\ validators'[IndexOf(a)].last_block_time = now
      ]_vars

\* C7: whatever add_block and create_block calls were made, the ledger starts
\* with the genesis block at height 0, block i has height i, and every later
\* block's previous_hash is the hash of the block before it; add_block of a
\* block with another height than the latest + 1, or with a previous_hash that
\* is not the latest block's hash, returns false and leaves the chain as it was.
C7_LedgerIsLinkedChain ==
    /\ [](/\ chain # <<>>
          /\ chain[1] = GenesisBlock
          /\ \A i \in DOMAIN chain : chain[i].height = i - 1
          /\ \A i \in DOMAIN chain :
                i > 1 => chain[i].previous_hash = BlockHash(chain[i - 1]))
    /\ [][ \A b \in CandidateBlocks :
              (/\ Blockchain_add_block(b)
               /\ \/ b.height # chain[Len(chain)].height + 1
                  \/ b.previous_hash # BlockHash(chain[Len(chain)])) =>
                  /\ lastOp'.result = "false"
                  /\ chain' = chain
         ]_vars

\* a block of the right height and the wrong previous_hash was turned away from
\* a ledger that had grown beyond the genesis block
C7_Witness ==
    /\ lastOp.op = "add_block"
    /\ lastOp.result = "false"
    /\ lastOp.arg = Len(chain)
    /\ Len(chain) > 1

\* C8: right after update_active_validators with max_validators = N, whatever
\* stake, register_validator and vote calls came before, exactly
\* min(N, number of registered validators) validators are active, all of them
\* registered and flagged is_active, and each has at least as many votes as
\* every registered validator left inactive.
C8_TopNByVotesActive ==
    lastOp.op = "update_active_validators" =>
        /\ active_validators \subseteq Registered
        /\ Cardinality(active_validators) = Min(max_validators, Len(validators))
        /\ \A i \in DOMAIN validators :
              validators[i].is_active = (validators[i].address \in active_validators)
        /\ \A i \in DOMAIN validators : \A j \in DOMAIN validators :
              (/\ validators[i].address \in active_validators
               /\ validators[j].address \notin active_validators)
                  => validators[i].votes >= validators[j].votes

\* the election left out a registered validator with fewer votes than an
\* elected one
C8_Witness ==
    /\ lastOp.op = "update_active_validators"
    /\ Len(validators) > max_validators
    /\ \E i \in DOMAIN validators : \E j \in DOMAIN validators :
          /\ validators[i].address \in active_validators
          /\ validators[j].address \notin active_validators
          /\ validators[i].votes > validators[j].votes

\* C9: right after update_active_validators a tie on votes at the cut-off is
\* broken by address, so the active set does not depend on the order of
\* registration: a registered validator is active exactly when fewer than
\* max_validators registered validators come before it by (votes descending,
\* address ascending).
C9_TiesBrokenByAddress ==
    lastOp.op = "update_active_validators" =>
        \A i \in DOMAIN validators :
            LET v == validators[i]
                ahead == {j \in DOMAIN validators :
                             \/ validators[j].votes > v.votes
                             \/ /\ validators[j].votes = v.votes
                                /\ validators[j].address < v.address}
            IN  (v.address \in active_validators) <=> (Cardinality(ahead) < max_validators)

\* C10: get_next_block_validator returns the active validator at index
\* floor(now / block_interval) mod |active| of the active addresses in
\* increasing order; so, while the active set stands, the calls of one block
\* interval all return the same validator, the calls of different intervals
\* within |active| consecutive ones return different validators, and calls in
\* each of |active| consecutive intervals return every active validator.
C10_RoundRobinOverSortedActive ==
    /\ [][ (get_next_block_validator /\ active_validators # {}) =>
              /\ lastOp'.ret \in active_validators
              /\ Cardinality({b \in active_validators : b < lastOp'.ret})
                    = (now \div block_interval) % Cardinality(active_validators)
         ]_vars
    /\ [](\A e \in schedule : \A f \in schedule : e[1] = f[1] => e[2] = f[2])
    /\ [](\A s \in 0..(MaxBlockTime \div block_interval) :
             LET n == Cardinality(active_validators)
                 window == {e \in schedule : s <= e[1] /\ e[1] < s + n}
             IN  /\ \A e \in window : \A f \in window : e[2] = f[2] => e[1] = f[1]
                 /\ {e[1] : e \in window} = s..(s + n - 1)
                       => {e[2] : e \in window} = active_validators)

\* with two validators active, calls in two consecutive intervals returned two
\* different validators
C10_Witness ==
    /\ Cardinality(active_validators) = 2
    /\ \E e \in schedule : \E f \in schedule : f[1] = e[1] + 1 /\ e[2] # f[2]

\* C11: vote(voter, candidate, amount) fails and leaves the vote log and every
\* validator's votes as they were when the voter has no stake, amount is more
\* than the voter's stake, or the candidate is not registered; otherwise it
\* appends exactly one Vote (voter, candidate, amount) to the log and adds
\* amount to the votes of the candidate and of nobody else.
C11_VoteRejectsOrCountsOnce ==
    [][ \A voter \in Addresses, candidate \in Addresses, amount \in VoteAmounts :
            vote(voter, candidate, amount) =>
                IF \/ voter \notin DOMAIN stakes
                   \/ amount > stakes[voter]
                   \/ \A i \in DOMAIN validators : validators[i].address # candidate
                THEN /\ lastOp'.result = "false"
                     /\ votes' = votes
                     /\ validators' = validators
                ELSE /\ lastOp'.result = "true"
                     /\ Len(votes') = Len(votes) + 1
                     /\ SubSeq(votes', 1, Len(votes)) = votes
                     /\ votes'[Len(votes')].voter = voter
                     /\ votes'[Len(votes')].candidate = candidate
                     /\ votes'[Len(votes')].amount = amount
                     /\ Len(validators') = Len(validators)
                     /\ \A i \in DOMAIN validators :
                           validators'[i].votes = validators[i].votes +
                               (IF validators[i].address = candidate THEN amount ELSE 0)
      ]_vars

\* a vote for a registered candidate was turned away (a voter without stake, or
\* an amount above the stake) after another vote had been counted for one of
\* two registered validators
C11_Witness ==
    /\ lastOp.op = "vote"
    /\ lastOp.result = "false"
    /\ lastOp.arg \in Registered
    /\ Len(votes) > 0
    /\ \E i \in DOMAIN validators : \E j \in DOMAIN validators :
          validators[i].votes # 0 /\ validators[j].votes = 0

\* C12: while the destination shard is not ready (its id is not below
\* shard_count, it is not initialized, or it has no validators)
\* process_messages leaves every message addressed to it queued, in
\* pending_messages and pending; a process_messages call made when the shard
\* is ready delivers and confirms every message waiting for it, so a sent
\* message is confirmed once its destination is ready and process_messages is
\* called again.
C12_UnreadyWaitsReadyConfirms ==
    [][ \A s \in ShardIds :
            (process_messages(s) /\ s \in DOMAIN message_queue) =>
                IF s >= shard_count \/ s \notin DOMAIN shards \/ shards[s] = {}
                THEN /\ message_queue'[s] = message_queue[s]
                     /\ \A k \in DOMAIN message_queue[s] :
                           LET m == msgs'[message_queue[s][k]]
                           IN  /\ m.status = "pending"
                               /\ m.message_id \in DOMAIN pending_messages'
                               /\ m.message_id \notin confirmed_messages'
                ELSE \A k \in DOMAIN message_queue[s] :
                         LET m == msgs'[message_queue[s][k]]
                         IN  /\ m.status = "confirmed"
                             /\ m.message_id \in confirmed_messages'
                             /\ \A j \in DOMAIN message_queue'[s] :
                                   message_queue'[s][j] # message_queue[s][k]
      ]_vars

\* C13: when the readiness check of a destination shard raises inside
\* _verify_shard_ready (the shard id is valid and initialized, and
\* get_current_time_slot raises), process_messages marks no message delivered
\* or confirmed: the messages stay queued and pending, and the call reports
\* the fault instead of returning as it does for a ready shard.
C13_ReadinessFaultIsNotReady ==
    [][ \A s \in ShardIds :
            (/\ process_messages(s)
             /\ s \in DOMAIN message_queue
             /\ message_queue[s] # <<>>
             /\ s < shard_count
             /\ s \in DOMAIN shards
             /\ CurrentSlotRaises(shards, shard_count, now)) =>
                /\ msgs' = msgs
                /\ message_queue' = message_queue
                /\ pending_messages' = pending_messages
                /\ confirmed_messages' = confirmed_messages
                /\ lastOp'.result # "none"
      ]_vars

\* C14: the status of a CrossShardMessage only moves forward along
\* pending -> delivered -> confirmed: no assignment to a message's status
\* takes it back to an earlier one, none makes a message confirmed that was
\* not delivered, no call leaves a message at an earlier status than it found
\* it, and an id in confirmed_messages stays there.
C14_StatusOnlyMovesForward ==
    [][ LET Rank(status) == CASE status = "pending" -> 0
                              [] status = "delivered" -> 1
                              [] status = "confirmed" -> 2
        IN  /\ confirmed_messages \subseteq confirmed_messages'
            /\ \A r \in DOMAIN msgs : Rank(msgs'[r].status) >= Rank(msgs[r].status)
            /\ \A s \in ShardIds :
                  (process_messages(s) /\ s \in DOMAIN message_queue) =>
                      LET w == status_writes(
                                   CsState(msgs, pending_messages, confirmed_messages),
                                   processed_messages(s))
                          Before(i) ==
                              LET earlier == {j \in 1..(i - 1) : w[j][1] = w[i][1]}
                              IN  IF earlier = {} THEN msgs[w[i][1]].status
                                  ELSE w[CHOOSE j \in earlier :
                                             \A k \in earlier : k <= j][2]
                      IN  \A i \in DOMAIN w :
                              /\ Rank(w[i][2]) >= Rank(Before(i))
                              /\ w[i][2] = "confirmed" => Rank(Before(i)) >= 1
      ]_vars

\* C15: sync_state never applies an update whose version is not above the
\* version the shard has applied so far (the shard's version before the call,
\* then the version of the update applied last); the shard's version never
\* decreases, and after a sync that applied updates it is the highest version
\* applied.
C15_StaleUpdatesNeverApplied ==
    [][ /\ \A s \in DOMAIN state_versions :
              s \in DOMAIN state_versions' /\ state_versions'[s] >= state_versions[s]
        /\ \A s \in ShardIds :
              (sync_state(s) /\ s < shard_count) =>
                  LET applied == applied_updates(pending_updates, state_versions, s)
                  IN  /\ \A i \in DOMAIN applied :
                            applied[i].version >
                                (IF i = 1 THEN Get(state_versions, s, 0)
                                 ELSE applied[i - 1].version)
                      /\ applied # <<>> =>
                            /\ state_versions'[s] = applied[Len(applied)].version
                            /\ \A i \in DOMAIN applied :
                                  applied[i].version <= state_versions'[s]
      ]_vars

\* C16: when the pending updates of a shard carry the versions 1, 2, 3,
\* sync_state leaves the shard in the state that applying them in increasing
\* version order gives, whatever order they were received in: every key holds
\* the value of the highest-version update that sets it, and the keys no
\* update sets keep their values.
C16_SyncIndependentOfReceiveOrder ==
    [][ (sync_state(0) /\ Len(pending_updates) = NumVersions) =>
            LET Setting(key) == {i \in DOMAIN pending_updates :
                                    key \in DOMAIN pending_updates[i].data}
                Latest(key) == CHOOSE i \in Setting(key) : \A j \in Setting(key) :
                                   pending_updates[j].version <= pending_updates[i].version
            IN  /\ DOMAIN state_cache'[0] =
                      DOMAIN state_cache[0] \cup
                          UNION {DOMAIN pending_updates[i].data : i \in DOMAIN pending_updates}
                /\ \A key \in DOMAIN state_cache'[0] :
                      state_cache'[0][key] =
                          IF Setting(key) # {}
                          THEN pending_updates[Latest(key)].data[key]
                          ELSE state_cache[0][key]
                /\ pending_updates' = <<>>
      ]_vars

\* the update of version 1 was received last and the update of the highest
\* version first, with another balance, and the shard holds the latter's
C16_Witness ==
    /\ lastOp = Call("sync_state", "true")
    /\ \E a \in StateData, b \in StateData :
          /\ a # b
          /\ state_cache[0] = a
          /\ UpdateId(0, 0, NumVersions) \in completed_updates
          /\ UpdateId(NumVersions - 1, 0, 1) \in completed_updates
          /\ Cardinality(completed_updates) = NumVersions

\* C17: update_state with a shard id outside 0..shard_count-1, too large or
\* negative, fails with the invalid-shard error, enqueues no pending update
\* and changes no version and no cached state.
C17_InvalidShardRejected ==
    [][ \A s \in AnyShardIds, d \in StateData :
            (update_state(s, d) /\ (s < 0 \/ s >= shard_count)) =>
                /\ lastOp' = Call("update_state", "ValueError")
                /\ UNCHANGED <<pending_updates, state_versions, state_cache>>
      ]_vars

\* C18: after any sequence of add_transaction, remove_transactions and
\* get_batch calls the pool holds at most max_size transactions.
C18_PoolNeverExceedsMaxSize == Len(pending_txs) <= max_size

\* a full pool has just turned down a transaction that passes validation
C18_Witness ==
    /\ Len(pending_txs) = max_size
    /\ lastOp.op = "add_transaction"
    /\ lastOp.result = "False"
    /\ _validate_transaction(pending_txs, lastOp.arg)

\* C19: when the pool holds max_size transactions, add_transaction of a
\* transaction that passes validation is rejected and leaves the pool
\* unchanged if its gas price does not exceed the lowest gas price in the
\* pool; if it exceeds it, the transaction is admitted and exactly one
\* transaction, one with the lowest gas price, is evicted, so the pool still
\* holds max_size transactions.
C19_FullPoolRejectsOrEvictsLowest ==
    [][ LET tx == lastOp'.arg IN
            ( /\ lastOp'.op = "add_transaction"
              /\ add_transaction(tx)
              /\ Len(pending_txs) = max_size
              /\ max_size > 0
              /\ _validate_transaction(pending_txs, tx) ) =>
                LET held == Range(pending_txs)
                    lowest == CHOOSE g \in {t.gas_price : t \in held} :
                                  \A t \in held : g <= t.gas_price
                IN  IF tx.gas_price <= lowest
                    THEN /\ lastOp'.result = "False"
                         /\ UNCHANGED <<pending_txs, priority_queue, total_size>>
                    ELSE /\ lastOp'.result = "True"
                         /\ Len(pending_txs') = max_size
                         /\ \E evicted \in held :
                               /\ evicted.gas_price = lowest
                               /\ Range(pending_txs') = (held \ {evicted}) \cup {tx}
      ]_vars

\* a full pool has just turned down a transaction that passes validation and
\* offers exactly the lowest gas price held, which lies above min_gas_price
C19_Witness ==
    /\ Len(pending_txs) = max_size
    /\ lastOp.op = "add_transaction"
    /\ lastOp.result = "False"
    /\ _validate_transaction(pending_txs, lastOp.arg)
    /\ lastOp.arg.gas_price > min_gas_price
    /\ \E i \in DOMAIN pending_txs : pending_txs[i].gas_price = lastOp.arg.gas_price
    /\ \A i \in DOMAIN pending_txs : pending_txs[i].gas_price >= lastOp.arg.gas_price

\* C20: get_batch(limit) with a positive limit returns the min(limit, pool
\* size) highest-priority transactions of the pool in priority order (gas price descending, earlier
\* timestamp first on equal gas price): no transaction left out has higher
\* priority than one returned, and the pool is left unchanged.
C20_BatchIsHighestPriorityPrefix ==
    [][ (lastOp'.op = "get_batch" /\ get_batch(lastOp'.arg) /\ lastOp'.arg > 0) =>
            LET limit == lastOp'.arg
                batch == lastOp'.ret
                held == Range(pending_txs)
            IN  /\ Len(batch) = Min(limit, Len(pending_txs))
                /\ Range(batch) \subseteq held
                /\ \A i, j \in DOMAIN batch :
                      i < j => ~PriorityBefore(batch[j], batch[i])
                /\ \A t \in held \ Range(batch), b \in Range(batch) :
                      ~PriorityBefore(t, b)
                /\ UNCHANGED <<pending_txs, priority_queue, total_size>>
      ]_vars

\* C21: once every shard holds at least min_shard_size validators, every
\* shard still holds at least min_shard_size validators after each
\* adjust_shards call, whether it transfers or splits.
C21_MinShardSizeKept ==
    [][ ( /\ shards # EmptyDict
          /\ \A s \in DOMAIN shards : Cardinality(shards[s]) >= min_shard_size ) =>
            \A s \in DOMAIN shards' : Cardinality(shards'[s]) >= min_shard_size
      ]_vars

\* C22: when adjust_shards handles an overloaded shard and an underloaded
\* shard exists, validators move into the overloaded shard from the
\* underloaded donor: no overloaded shard ends with fewer validators and the
\* donor does not end with more.
C22_TransferIntoOverloaded ==
    [][ ( /\ adjust_shards
          /\ ~collect_metrics_raises
          /\ overloaded_shards # <<>>
          /\ underloaded_shards # <<>> ) =>
            /\ \A s \in Range(overloaded_shards) :
                  Cardinality(shards'[s]) >= Cardinality(shards[s])
            /\ Cardinality(shards'[underloaded_shards[1]]) <=
                  Cardinality(shards[underloaded_shards[1]])
      ]_vars

\* C23: when no underloaded shard exists, adjust_shards splits every
\* overloaded shard of at least 2 x min_shard_size validators: its validators
\* are partitioned into two halves whose sizes differ by at most one, the
\* second half forms a new shard whose id is the shard_count before the split,
\* shard_count grows by one per split and the shard ids stay 0..shard_count-1;
\* a shard of fewer validators keeps its members.
C23_SplitHalvesIntoNewShard ==
    [][ ( /\ adjust_shards
          /\ ~collect_metrics_raises
          /\ overloaded_shards # <<>>
          /\ underloaded_shards = <<>> ) =>
            LET split == SelectSeq(overloaded_shards,
                            LAMBDA s : Cardinality(shards[s]) >= 2 * min_shard_size)
            IN  /\ shard_count' = shard_count + Len(split)
                /\ DOMAIN shards' = 0..(shard_count' - 1)
                /\ \A k \in DOMAIN split :
                      LET old == split[k]
                          new == shard_count + k - 1
                      IN  /\ shards'[old] \cup shards'[new] = shards[old]
                          /\ shards'[old] \cap shards'[new] = {}
                          /\ Cardinality(shards'[new]) - Cardinality(shards'[old]) \in {0, 1}
                /\ \A s \in DOMAIN shards \ Range(split) : shards'[s] = shards[s]
      ]_vars

\* one adjust_shards call has split shard 0 of three validators into one and
\* two, the two forming shard 2
C23_Witness ==
    /\ lastOp = Call("adjust_shards", "true")
    /\ shard_count = InitialShardCount + 1
    /\ DOMAIN shards = 0..InitialShardCount
    /\ Cardinality(shards[0]) = 1
    /\ Cardinality(shards[InitialShardCount]) = 2
    /\ shards[0] \cup shards[InitialShardCount] = {1, 2, 3}

\* C24: initialize_shards of distinct validators that all have a stake
\* assigns them in descending stake order, each to the shard with the fewest
\* validators at that moment, lowest shard id on ties, that is in turn to
\* shard 0, 1, ...: every validator is in exactly one shard, assignments[v]
\* names that shard and carries the stake, and shard sizes differ by at most
\* one.
C24_GreedyAssignmentByStake ==
    [][ ( /\ lastOp'.op = "initialize_shards"
          /\ ShardManager_initialize_shards(lastOp'.arg.validators, lastOp'.arg.stakes)
          /\ assignments = EmptyDict
          /\ Range(lastOp'.arg.validators) \subseteq DOMAIN lastOp'.arg.stakes ) =>
            LET vs == lastOp'.arg.validators
                stk == lastOp'.arg.stakes
                ids == 0..(shard_count - 1)
            IN  /\ lastOp'.result = "none"
                /\ DOMAIN shard_validators' = ids
                /\ \E order \in AssignedLists :
                      /\ Range(order) = Range(vs)
                      /\ \A i, j \in DOMAIN order : i < j => stk[order[i]] >= stk[order[j]]
                      /\ \A k \in DOMAIN order :
                            order[k] \in shard_validators'[(k - 1) % shard_count]
                /\ \A v \in Range(vs) :
                      /\ Cardinality({s \in ids : v \in shard_validators'[s]}) = 1
                      /\ v \in shard_validators'[assignments'[v].shard_id]
                      /\ assignments'[v].stake = stk[v]
                /\ UNION {shard_validators'[s] : s \in ids} = Range(vs)
                /\ \A s, t \in ids :
                      Cardinality(shard_validators'[s]) - Cardinality(shard_validators'[t]) <= 1
      ]_vars

\* stakes 4, 3, 2, 1 for the validators 1..4, handed over in ascending stake
\* order: validators 1 and 3 are in shard 0, validators 2 and 4 in shard 1
C24_Witness ==
    /\ lastOp.op = "initialize_shards"
    /\ lastOp.result = "none"
    /\ lastOp.arg.validators = <<4, 3, 2, 1>>
    /\ lastOp.arg.stakes = [v \in 1..4 |-> 5 - v]
    /\ shard_validators = (0 :> {1, 3} @@ 1 :> {2, 4})
    /\ assignments[3].shard_id = 0

\* C25: rebalance_shards returns, having moved validators one at a time into
\* every shard below 80% of the average stake until its stake reaches the
\* average or no other shard holds more than one validator, and it leaves
\* every validator in exactly one shard_validators set, the one
\* assignments[v].shard_id names.
C25_RebalanceReturnsConsistent ==
    [][ ( /\ lastOp'.op = "rebalance_shards"
          /\ rebalance_shards
          /\ ~rebalance_raises ) =>
            LET ids == 0..(shard_count - 1)
                total == SumStakes(shard_validators', ids)
            IN  /\ lastOp'.result = "none"
                /\ \A v \in DOMAIN assignments' :
                      /\ Cardinality({s \in ids : v \in shard_validators'[s]}) = 1
                      /\ v \in shard_validators'[assignments'[v].shard_id]
                /\ \A s \in ids :
                      below_average(shard_validators, s, total, shard_count) =>
                          \/ total_stake(shard_validators'[s]) * shard_count >= total
                          \/ \A t \in ids \ {s} : Cardinality(shard_validators'[t]) <= 1
      ]_vars

\* C26: vote_block(block_hash, validator) adds the validator to the hash's
\* voters and changes no other hash; it returns true, and is_block_confirmed
\* returns true, exactly when the hash has at least required_confirmations
\* distinct voters; a repeated vote leaves the count as it was.
C26_ConfirmedIffThresholdReached ==
    [][LET h == IF lastOp'.op = "vote_block" THEN lastOp'.arg.block_hash
                ELSE lastOp'.arg
           before == Get(block_votes, h, {})
           after == Get(block_votes', h, {})
       IN  /\ lastOp'.op = "vote_block" =>
                 /\ after = before \cup {lastOp'.arg.validator}
                 /\ \A g \in VotedHashes \ {h} :
                       Get(block_votes', g, {}) = Get(block_votes, g, {})
                 /\ lastOp'.result = "True" <=>
                       Cardinality(after) >= required_confirmations
                 /\ lastOp'.arg.validator \in before =>
                       Cardinality(after) = Cardinality(before)
           /\ lastOp'.op = "is_block_confirmed" =>
                 /\ after = before
                 /\ lastOp'.result = "True" <=>
                       Cardinality(before) >= required_confirmations]_vars

\* the vote that reaches the threshold has just returned true
C26_Witness ==
    /\ lastOp.op = "vote_block"
    /\ lastOp.result = "True"
    /\ Cardinality(block_votes[lastOp.arg.block_hash]) = required_confirmations

\* C27: a block hash that is confirmed stays confirmed through every later
\* vote, for this hash or another.
C27_ConfirmationIsMonotonic ==
    [][\A h \in VotedHashes :
          is_block_confirmed_in(block_votes, h) => is_block_confirmed_in(block_votes', h)]_vars

\* h1 is confirmed and later votes, the last one for h2, have followed
C27_Witness ==
    /\ is_block_confirmed_in(block_votes, "h1")
    /\ lastOp.op = "vote_block"
    /\ lastOp.arg.block_hash = "h2"
    /\ lastOp.result = "False"

\* C28: every ForkChoice.add_block appends the block to the bucket keyed by
\* its previous_hash and leaves the other buckets alone; afterwards head is
\* the key of a longest bucket among those is_valid_chain accepts, or empty
\* when none is accepted, and the previous head is kept when it is still one
\* of the longest accepted buckets.
C28_HeadIsLongestValidBucket ==
    [][lastOp'.op = "add_block" =>
          LET block == lastOp'.arg
              chain_id == block.previous_hash
              valid == {k \in ChainIds(chains') : is_valid_chain(ChainOf(chains', k))}
              longest == {k \in valid :
                            \A j \in valid :
                               Len(ChainOf(chains', k)) >= Len(ChainOf(chains', j))}
          IN  /\ ChainOf(chains', chain_id) = Append(ChainOf(chains, chain_id), block)
              /\ ChainIds(chains') = ChainIds(chains) \cup {chain_id}
              /\ \A k \in ChainIds(chains) \ {chain_id} :
                    ChainOf(chains', k) = ChainOf(chains, k)
              /\ IF valid = {} THEN head' = NoHead ELSE head' \in longest
              /\ head \in longest => head' = head]_vars

\* two accepted buckets of one block each: the first-seen one is the head
\* after a block went into the second
C28_Witness ==
    /\ Len(chains) >= 2
    /\ Len(chains[1].blocks) = 1
    /\ Len(chains[2].blocks) = 1
    /\ head = chains[1].id
    /\ lastOp.op = "add_block"
    /\ lastOp.arg.previous_hash = chains[2].id

\* C29: is_valid_chain accepts a chain exactly when every block names its
\* predecessor's digest and the heights are 0, 1, 2, ... from the first block.
C29_ValidIffLinkedFromZero ==
    [][lastOp'.op = "is_valid_chain" =>
          LET c == lastOp'.arg
          IN  lastOp'.result = "True" <=>
                 /\ \A i \in 2..Len(c) : c[i].previous_hash = BlockHash(c[i - 1])
                 /\ \A i \in 1..Len(c) : c[i].height = i - 1]_vars

\* C29, amended: is_valid_chain accepts a chain exactly when it is not empty
\* and every block after the first names its predecessor's digest and has its
\* predecessor's height plus one; the first block's height is free.
C29_ValidIffAdjacentPairsLinked ==
    [][lastOp'.op = "is_valid_chain" =>
          LET c == lastOp'.arg
          IN  lastOp'.result = "True" <=>
                 /\ c # <<>>
                 /\ \A i \in 2..Len(c) :
                       /\ c[i].previous_hash = BlockHash(c[i - 1])
                       /\ c[i].height = c[i - 1].height + 1]_vars

\* a linked chain of two blocks that starts above height 0 was accepted
C29_Witness ==
    /\ lastOp.op = "is_valid_chain"
    /\ lastOp.result = "True"
    /\ Len(lastOp.arg) = 2
    /\ lastOp.arg[1].height = 1

\* C30: after any ticks, with or without data, on a ProofOfHistory of any
\* difficulty, verify(i, j) returns true for every 0 <= i <= j <= len(history)-1.
C30_VerifyAcceptsUntamperedHistory ==
    [][lastOp'.op = "verify" =>
          LET i == lastOp'.arg.start_index
              j == lastOp'.arg.end_index
          IN  (0 <= i /\ i <= j /\ j <= Len(history) - 1) => lastOp'.result = "True"]_vars

\* the whole history of MaxTicks ticks, some with data, some with the empty
\* string, some with none, was verified at difficulty 2
C30_Witness ==
    /\ lastOp.op = "verify"
    /\ lastOp.result = "True"
    /\ lastOp.arg = [start_index |-> 0, end_index |-> MaxTicks]
    /\ difficulty = MaxDifficulty
    /\ \E n \in 2..Len(history) : history[n].data = StrData("tx1")
    /\ \E n \in 2..Len(history) : history[n].data = StrData("")
    /\ \E n \in 2..Len(history) : history[n].data = NoData

\* C31: once one field of one node has been changed to a different value,
\* verify(i, j) returns false for every range [i, j] that holds the node.
C31_VerifyRejectsTamperedNode ==
    [][(/\ lastOp'.op = "verify"
        /\ tampered # NotTampered
        /\ lastOp'.arg.start_index <= tampered.index
        /\ tampered.index <= lastOp'.arg.end_index)
          => lastOp'.result = "False"]_vars

\* C32: verify(start, end) returns false whenever start < 0,
\* start > len(history)-1 or end > len(history)-1.
C32_VerifyRejectsOutOfRange ==
    [][lastOp'.op = "verify" =>
          LET i == lastOp'.arg.start_index
              j == lastOp'.arg.end_index
          IN  (i < 0 \/ i > Len(history) - 1 \/ j > Len(history) - 1)
                 => lastOp'.result = "False"]_vars

\* C33: before initialize_shards, get_current_time_slot raises; after it, the
\* call returns the slot floor((now - global_start_time) / slot_duration), whose
\* bounds hold now and whose validator group is the present validator set of
\* shard slot_id mod shard_count; any shard_count consecutive slots have each
\* shard as their active shard once.
C33_CurrentSlotIsTheActiveShards ==
    [][(lastOp'.op = "get_current_time_slot" /\ now' = now) =>
          IF shards = EmptyDict THEN lastOp'.result = "ValueError"
          ELSE /\ lastOp'.result = "slot"
               /\ LET slot == lastOp'.ret
                      elapsed == now - global_start_time
                  IN  /\ slot.slot_id * slot_duration <= elapsed
                      /\ elapsed < (slot.slot_id + 1) * slot_duration
                      /\ slot.start_time <= now
                      /\ now < slot.end_time
                      /\ slot.validator_group = shards[slot.slot_id % shard_count]
                      /\ \A k \in 0..MaxSlotTime :
                            /\ {(k + i) % shard_count : i \in 0..(shard_count - 1)}
                                  = DOMAIN shards
                            /\ \A i \in 0..(shard_count - 1), j \in 0..(shard_count - 1) :
                                  (k + i) % shard_count = (k + j) % shard_count => i = j]_vars

\* slot 2 of a manager with two-second slots, read at second 5 after a split:
\* the active shard is shard 2
C33_Witness ==
    /\ lastOp.op = "get_current_time_slot"
    /\ lastOp.result = "slot"
    /\ slot_duration = 2
    /\ now = 5
    /\ lastOp.ret.slot_id = 2
    /\ shard_count = 3
    /\ lastOp.ret.validator_group = shards[2]
    /\ shards[2] # {}

\* the sum of the amounts of the Vote entries of log that name candidate
RECURSIVE VoteLogTotal(_, _)
VoteLogTotal(log, candidate) ==
    IF log = <<>> THEN 0
    ELSE (IF Head(log).candidate = candidate THEN Head(log).amount ELSE 0)
         + VoteLogTotal(Tail(log), candidate)

\* C34: through every stake, register_validator, vote and
\* update_active_validators call no validator's vote total decreases, and each
\* total is the sum of the amounts of the Vote entries naming the validator.
C34_VotesNeverDecrease ==
    [][/\ \A i \in DOMAIN validators : validators'[i].votes >= validators[i].votes
       /\ \A i \in DOMAIN validators' :
             validators'[i].votes = VoteLogTotal(votes', validators'[i].address)]_vars

\* the sum of the sizes of the transactions of txs
RECURSIVE PoolSizeTotal(_)
PoolSizeTotal(txs) ==
    IF txs = <<>> THEN 0 ELSE Head(txs).size + PoolSizeTotal(Tail(txs))

\* C35: under every interleaving of add_transaction and remove_transactions
\* calls, each run under the pool lock, the heap holds one entry per pending
\* transaction, with its tx_id and gas price, and no other; the heap's least
\* entry has the lowest gas price of the pool; total_size is the sum of the
\* sizes of the pending transactions.
C35_HeapAndIndexConsistent ==
    /\ Cardinality(priority_queue) = Len(pending_txs)
    /\ \A e \in priority_queue :
          /\ InPool(pending_txs, e[2])
          /\ TxOf(pending_txs, e[2]).gas_price = e[1]
    /\ \A i \in DOMAIN pending_txs :
          /\ <<pending_txs[i].gas_price, pending_txs[i].tx_id>> \in priority_queue
          /\ \A j \in DOMAIN pending_txs :
                pending_txs[i].tx_id = pending_txs[j].tx_id => i = j
    /\ priority_queue # {} =>
          \A i \in DOMAIN pending_txs :
             HeapTop(priority_queue)[1] <= pending_txs[i].gas_price
    /\ total_size = PoolSizeTotal(pending_txs)

\* a full pool from which remove_transactions took one of two transactions
\* after an add_transaction evicted another
C35_Witness ==
    /\ lastOp.op = "remove_transactions"
    /\ Len(pending_txs) = 1
    /\ pending_txs[1].tx_id = NumPoolTxIds
    /\ pending_txs[1].gas_price = MaxGasPrice
    /\ total_size = MaxTxSize

\* the update_ids of the pending updates of shard_id
PendingIds(pu, shard_id) ==
    {pu[i].update_id : i \in {j \in DOMAIN pu : pu[j].shard_id = shard_id}}

\* C36: every update enqueued by update_state(shard) is applied by the next
\* sync_state(shard): an accepted update_state adds one pending update and
\* keeps the ones already waiting; after sync_state returns true no pending
\* update of that shard remains, each of them has moved from pending_updates
\* to completed_updates (the two never share an id), and the state, versions
\* and pending updates of all other shards are unchanged.
C36_EveryUpdateAppliedByNextSync ==
    [][ /\ (lastOp'.op = "update_state" /\ lastOp'.result = "id" /\ now' = now
            /\ updates_made' # updates_made) =>
               /\ Len(pending_updates') = Len(pending_updates) + 1
               /\ \A i \in DOMAIN pending_updates :
                     pending_updates'[i] = pending_updates[i]
        /\ \A s \in AnyShardIds :
              (sync_state(s) /\ s < shard_count) =>
                  /\ PendingIds(pending_updates', s) = {}
                  /\ PendingIds(pending_updates, s) \subseteq completed_updates'
                  /\ \A i \in DOMAIN pending_updates' :
                        pending_updates'[i].update_id \notin completed_updates'
                  /\ SelectSeq(pending_updates', LAMBDA u : u.shard_id # s)
                        = SelectSeq(pending_updates, LAMBDA u : u.shard_id # s)
                  /\ \A o \in AnyShardIds \ {s} :
                        /\ Get(state_cache', o, DefaultState)
                              = Get(state_cache, o, DefaultState)
                        /\ Get(state_versions', o, 0) = Get(state_versions, o, 0)
      ]_vars

\* the part of C36 about sync_state alone
C36_SyncPart ==
    [][ \A s \in AnyShardIds :
              (sync_state(s) /\ s < shard_count) =>
                  /\ PendingIds(pending_updates', s) = {}
                  /\ PendingIds(pending_updates, s) \subseteq completed_updates'
                  /\ \A i \in DOMAIN pending_updates' :
                        pending_updates'[i].update_id \notin completed_updates'
      ]_vars

\* some pending update of shard s carries a validator set
HasValidatorsUpdate(pu, s) ==
    \E i \in DOMAIN pu : pu[i].shard_id = s /\ "validators" \in DOMAIN pu[i].data

\* the shards whose validator set an adjust_shards step changed or created
AffectedShards ==
    {s \in DOMAIN shards' : s \notin DOMAIN shards \/ shards'[s] # shards[s]}

\* C37: after adjust_shards performs a transfer or a split, every affected
\* shard (both shards of a transfer, the original and the new shard of a
\* split, also when several overloaded shards were handled in one call) has a
\* pending update carrying its validator set, and the sync_state run on the
\* shard leaves get_shard_state(shard)["validators"] equal to the shard's
\* current validator set in the TimeShardingManager.
C37_SyncedValidatorsAreCurrent ==
    [][ /\ (lastOp'.op = "adjust_shards" /\ lastOp'.result = "true"
            /\ updates_made' # updates_made) =>
               \A s \in AffectedShards :
                  /\ s < shard_count'
                  /\ HasValidatorsUpdate(pending_updates', s)
        /\ \A s \in ShardIds :
              (sync_state(s) /\ s < shard_count
               /\ HasValidatorsUpdate(pending_updates, s)) =>
                  /\ s \in DOMAIN shards
                  /\ "validators" \in DOMAIN Get(state_cache', s, DefaultState)
                  /\ Get(state_cache', s, DefaultState).validators = shards[s]
      ]_vars

\* one adjust_shards call has split the two overloaded shards 0 and 1 into
\* the new shards 2 and 3, and sync_state has run on shards 0, 1 and 2
C37_Witness ==
    /\ lastOp.op = "sync_state"
    /\ updates_made = 1
    /\ shard_count = 4
    /\ DOMAIN shards = {0, 1, 2, 3}
    /\ \A s \in {0, 1, 2} :
          /\ s \in DOMAIN state_cache
          /\ "validators" \in DOMAIN state_cache[s]
          /\ state_cache[s].validators = shards[s]
          /\ shards[s] # {}

\* the message object ref waits in some destination queue
Queued(ref) == \E s \in DOMAIN message_queue : ref \in Range(message_queue[s])

\* C38: in every reachable state each message id returned by
\* send_cross_shard_message is in exactly one of pending_messages and
\* confirmed_messages, a message sits in a destination queue iff its id is in
\* pending_messages, distinct sends (also of one shard pair) have distinct
\* ids, and a message that process_messages removed from its queue has status
\* confirmed.
C38_IdsUniqueAndTracked ==
    \A i \in DOMAIN msgs :
        LET id == msgs[i].message_id
        IN  /\ (id \in DOMAIN pending_messages) # (id \in confirmed_messages)
            /\ Queued(i) <=> id \in DOMAIN pending_messages
            /\ \A j \in DOMAIN msgs : msgs[j].message_id = id => i = j
            /\ ~Queued(i) => msgs[i].status = "confirmed"

\* C38 for the sends that no other send shares its id with
C38_TrackedWhenIdsDiffer ==
    (\A i, j \in DOMAIN msgs : msgs[j].message_id = msgs[i].message_id => i = j) =>
        \A i \in DOMAIN msgs :
            LET id == msgs[i].message_id
            IN  /\ (id \in DOMAIN pending_messages) # (id \in confirmed_messages)
                /\ Queued(i) <=> id \in DOMAIN pending_messages
                /\ ~Queued(i) => msgs[i].status = "confirmed"

\* C39: in every reachable state, also after the shard splits of
\* adjust_shards, every shard id below shard_count has a local pool in
\* tx_pools and a message list in cross_shard_messages, and route_transaction
\* succeeds for every transaction whose from_shard and to_shard are existing
\* shards.
C39_EveryShardHasPoolAndMessageList ==
    [][ /\ \A s \in 0..(shard_count' - 1) :
              s \in DOMAIN tx_pools' /\ s \in DOMAIN cross_shard_messages'
        /\ \A tx \in Transactions :
              (route_transaction(tx) /\ tx.from_shard < shard_count
               /\ tx.to_shard < shard_count) => lastOp'.result = "true"
      ]_vars

\* C40: every block of a ForkChoice bucket has the bucket key as its
\* previous_hash, so a bucket of two or more blocks never passes
\* is_valid_chain; after every add_block the bucket selected as head holds
\* exactly one block, and adding a second block to the head's bucket moves
\* head to another bucket or to empty.
C40_HeadBucketHoldsOneBlock ==
    [][ /\ \A i \in DOMAIN chains' :
              /\ \A k \in DOMAIN chains'[i].blocks :
                    chains'[i].blocks[k].previous_hash = chains'[i].id
              /\ Len(chains'[i].blocks) >= 2 => ~is_valid_chain(chains'[i].blocks)
        /\ head' # NoHead => Len(ChainOf(chains', head')) = 1
        /\ (lastOp'.op = "add_block" /\ chains' # chains /\ head # NoHead
            /\ lastOp'.arg.previous_hash = head) =>
               /\ head' # head
               /\ head' = NoHead \/ head' \in ChainIds(chains)
      ]_vars

\* the bucket that was head got a second block and head moved to the other
\* bucket
C40_Witness ==
    /\ lastOp.op = "add_block"
    /\ Len(chains) = 2
    /\ Len(chains[1].blocks) = 2
    /\ lastOp.arg.previous_hash = chains[1].id
    /\ head = chains[2].id
    /\ Len(chains[2].blocks) = 1

====
